---- MODULE Spec2Model ----
(***************************************************************************)
(* A model of the cache-aside layer of the autozen backend: the Store      *)
(* (the relational rows), the Cache (django.core.cache), the read-through  *)
(* accessors and the invalidation calls made by the model methods and the  *)
(* views.  Each action is one handler of the source, taken as a whole.     *)
(***************************************************************************)
EXTENDS Integers, FiniteSets, Sequences, TLC

\* ------------------------------------------------------------------ bounds
\* MaxQty caps a cart line's or an order line's quantity, MaxStock is the stock
\* every product starts with, MaxOrders caps the Order table.
MaxQty == 2
MaxStock == 3
MaxOrders == 1

\* Two users and two products: the identities the keys are built from.
Users == {1, 2}
Products == {1, 2}
\* request.user.is_staff
Staff == {2}

\* The price column of each product, in its smallest currency unit.
Price(p) == 10 * p

\* One brand, its one vehicle model, and two part categories of which the second is
\* a subcategory of the first.  Every product is of that brand and model and in
\* category 1.
Brands == {1}
VehicleModels == {1}
Cats == {1, 2}
Parent(c) == IF c = 2 THEN 1 ELSE 0

\* ------------------------------------------------------------------- state
\* The clock advances by TickStep seconds up to MaxTime.
TickStep == 200
MaxTime == 1400
\* The email addresses or phone numbers that ask for an OTP, and the codes drawn.
Identifiers == {1}
Otps == {1, 2}
\* The requests of one kind that are in progress at the same time.
Requests == {1, 2}
\* The slugs and the page types a Page can have.
Slugs == {1, 2}
PageTypes == {"about", "terms"}
\* MaxTxns caps the Transaction table and MaxRefunds the Refund table.
MaxTxns == 2
MaxRefunds == 2

VARIABLES
    cache,       \* key -> {} (absent) or {value}: django.core.cache
    carts,       \* the users that have a Cart row (cart.id is modelled by its user)
    cartItems,   \* cart -> product -> quantity of its CartItem row, 0 for no row
    prod,        \* product -> its Product row: exists, is_active, is_featured
    stock,       \* product -> Product.stock_quantity
    orders,      \* the Order rows in id order: user, status, item lines
    brands,      \* brand id -> exists, is_active
    vmodels,     \* vehicle model id -> exists, is_active
    cats,        \* part category id -> exists, is_active
    life,        \* the save() or delete() call that is in progress, step by step
    wish,        \* user -> the Wishlist row (exists) and the products of its items
    clock,       \* the time, in seconds
    otps,        \* identifier -> {} or the entry set under otp_{identifier}
    accounts,    \* the identifiers that have a User row
    race,        \* a Cart.subtotal read and a Cart write in progress, step by step
    making,      \* the OrderCreateSerializer.create call in progress
    co,          \* checkout request -> its position, its quantity, the stock it read, its order
    txns,        \* the Transaction rows in id order: order, user, status, amount
    refunds,     \* the Refund rows: transaction, amount
    paid,        \* the orders whose payment_status is True
    pays,        \* payment request -> its position and the Transaction instance it holds
    cancelling,  \* the cancel request in progress: the order instance it loaded
    verifying,   \* VerifyOTP request -> its position and its identifier
    wins,        \* the successful verifications since the OTP was sent
    page,        \* the Page row: slug, page_type, is_active
    tcache,      \* cart key -> {} or the entry set under it, with its time and timeout
    configs,     \* the LandingPageConfiguration rows: the site_title of each
    saving,      \* request -> its position in LandingPageConfiguration.save or get_config
    last         \* the handler that ran last and what it returned

catalogVars == <<brands, vmodels, cats>>
\* The state of the requests that are followed step by step.
concVars == <<co, txns, refunds, paid, pays, cancelling, verifying, wins, page, tcache,
      configs, saving>>
\* What no handler of the shop touches.
laterVars == <<wish, clock, otps, accounts, race, making, concVars>>
otherVars == <<life, laterVars>>
vars ==
    <<cache, carts, cartItems, prod, stock, orders, brands, vmodels, cats, life, wish, clock,
      otps, accounts, race, making, co, txns, refunds, paid, pays, cancelling,
      verifying, wins, page, tcache, configs, saving, last>>
\* What the wishlist functions leave alone.
exceptWish ==
    <<carts, cartItems, prod, stock, orders, catalogVars, life, clock, otps, accounts,
      race, making, concVars>>
\* What the OTP views and the passing of time leave alone.
exceptOtp ==
    <<cache, carts, cartItems, prod, stock, orders, catalogVars, life, wish, race, making,
      concVars>>
\* What neither a Cart property nor a Cart method touches.
exceptCart ==
    <<carts, prod, stock, orders, catalogVars, life, wish, clock, otps, accounts, making,
      concVars>>
\* What OrderCreateSerializer.create leaves alone.
exceptCreate ==
    <<carts, cartItems, prod, stock, catalogVars, life, wish, clock, otps, accounts, race,
      concVars>>
\* What the cart's reads and writes leave alone when the time is followed.
exceptTimed ==
    <<cache, prod, stock, orders, catalogVars, life, wish, otps, accounts, race, making,
      co, txns, refunds, paid, pays, cancelling, verifying, wins, page, configs, saving>>
\* What LandingPageConfiguration leaves alone.
exceptConfig ==
    <<carts, cartItems, prod, stock, orders, catalogVars, life, wish, clock, otps, accounts,
      race, making, co, txns, refunds, paid, pays, cancelling, verifying, wins, page,
      tcache>>
\* What the pages app leaves alone.
exceptPage ==
    <<carts, cartItems, prod, stock, orders, catalogVars, life, wish, clock, otps, accounts,
      race, making, co, txns, refunds, paid, pays, cancelling, verifying, wins, tcache,
      configs, saving>>
\* What a VerifyOTP request leaves alone besides the clock.
exceptVerify ==
    <<cache, carts, cartItems, prod, stock, orders, catalogVars, life, wish, race, making,
      co, txns, refunds, paid, pays, cancelling, page, tcache, configs, saving>>
\* What the order views leave alone.
exceptOrder ==
    <<carts, cartItems, prod, stock, catalogVars, life, wish, clock, otps, accounts, race,
      making, co, txns, refunds, paid, pays, verifying, wins, page, tcache, configs,
      saving>>
\* What the payment views leave alone.
exceptPayment ==
    <<carts, cartItems, prod, stock, catalogVars, life, wish, clock, otps, accounts, race,
      making, co, cancelling, verifying, wins, page, tcache, configs, saving>>
\* What a checkout request leaves alone besides the cart.
exceptCheckout ==
    <<carts, prod, catalogVars, life, wish, clock, otps, accounts, race, making, txns,
      refunds, paid, pays, cancelling, verifying, wins, page, tcache, configs, saving>>

\* ------------------------------------------------------------- cache keys
\* A key is its prefix and the value interpolated into it.
CartItemsCountKey(c) == <<"cart_items_count_", c>>
CartTotalQuantityKey(c) == <<"cart_total_quantity_", c>>
CartSubtotalKey(c) == <<"cart_subtotal_", c>>
CartKey(u) == <<"cart_", u>>
CartItemsKey(u) == <<"cart_items_", u>>
\* get_order_cache_key(order_id): f"order_{order_id}"
OrderKey(o) == <<"order_", o>>
\* OrderViewSet.retrieve: f"order_{lookup_value}", the lookup being the order number
\* "ORD-<8 hex digits>", which no order id equals
OrderNumberKey(o) == <<"order_ORD-", o>>
OrderItemsKey(o) == <<"order_items_", o>>
UserOrdersKey(u) == <<"user_orders_", u>>
ProductInstanceKey(p) == <<"product_instance_", p>>
ProductBySlugKey(p) == <<"product_by_slug_", p>>
ProductBySkuKey(p) == <<"product_by_sku_", p>>

CartAggregateKeys(c) ==
    {CartItemsCountKey(c), CartTotalQuantityKey(c), CartSubtotalKey(c)}

OrderIds == 1..(MaxOrders + 1)

\* cache_utils.py and landing/utils.py: the global collections
ActiveBrandsKey == <<"active_brands", 0>>
ActiveModelsKey == <<"active_models", 0>>
ActiveCategoriesKey == <<"active_categories", 0>>
NavigationTreeKey == <<"navigation_tree", 0>>
FeaturedProductsKey(limit) == <<"featured_products_", limit>>
LandingPageContentKey == <<"landing_page_content", 0>>
\* get_featured_products(limit=12)
FeaturedLimit == 12
BrandKeys(b) == {<<"brand_models_count_", b>>, <<"brand_models_", b>>}
IsParentKey(c) == <<"part_category_is_parent_", c>>
SubcategoriesKey(c) == <<"part_category_subcategories_", c>>
SubcategoriesCountKey(c) == <<"part_category_subcategories_count_", c>>
PartCategoryKeys(c) ==
    {SubcategoriesCountKey(c), SubcategoriesKey(c), <<"part_category_products_", c>>,
     <<"part_category_instance_", c>>, IsParentKey(c), <<"part_category_full_path_", c>>}

\* get_wishlist_cache_key, get_wishlist_items_cache_key, get_wishlist_count_cache_key
WishlistKey(u) == <<"wishlist_user_", u>>
WishlistItemsKey(u) == <<"wishlist_items_user_", u>>
WishlistCountKey(u) == <<"wishlist_count_user_", u>>
\* the keys invalidate_wishlist_cache deletes (wishlist_response_{user_id}, which no
\* function followed here writes, is left out)
WishlistKeys(u) == {WishlistKey(u), WishlistItemsKey(u), WishlistCountKey(u)}

GlobalKeys ==
    {ActiveBrandsKey, ActiveModelsKey, ActiveCategoriesKey, NavigationTreeKey,
     FeaturedProductsKey(FeaturedLimit), LandingPageContentKey}

\* payment/cache_utils.py: get_transaction_cache_key
TransactionKey(t) == <<"transaction_", t>>

\* pages/utils.py: the keys of get_page_by_slug, get_page_by_type, get_active_pages
PageKey(s) == <<"page_", s>>
PageTypeKey(t) == <<"page_type_", t>>
ActivePagesKey == <<"active_pages", 0>>

AllKeys ==
    GlobalKeys
    \cup UNION {BrandKeys(b) : b \in Brands}
    \cup UNION {PartCategoryKeys(c) : c \in Cats}
    \cup UNION {CartAggregateKeys(u) \cup {CartKey(u), CartItemsKey(u), UserOrdersKey(u)}
             : u \in Users}
    \cup UNION {WishlistKeys(u) : u \in Users}
    \cup {TransactionKey(t) : t \in 1..(MaxTxns + 1)}
    \cup {PageKey(s) : s \in Slugs} \cup {PageTypeKey(t) : t \in PageTypes}
    \cup {ActivePagesKey}
    \cup UNION {{OrderKey(o), OrderNumberKey(o), OrderItemsKey(o)} : o \in OrderIds}
    \cup UNION {{ProductInstanceKey(p), ProductBySlugKey(p), ProductBySkuKey(p)}
                  : p \in Products}

\* ------------------------------------------------------- cache operations
Hit(ch, k) == ch[k] # {}
Value(ch, k) == CHOOSE v \in ch[k] : TRUE
CacheSet(ch, k, v) == [ch EXCEPT ![k] = {v}]
CacheDeleteMany(ch, ks) == [k \in DOMAIN ch |-> IF k \in ks THEN {} ELSE ch[k]]
\* value = cache.get(key); if value is None: value = <query>; cache.set(key, value, ttl)
ReadThrough(ch, k, dbv) ==
    IF Hit(ch, k) THEN [cache |-> ch, val |-> Value(ch, k)]
    ELSE [cache |-> CacheSet(ch, k, dbv), val |-> dbv]

\* ------------------------------------------------------- Store aggregates
RECURSIVE SumOver(_, _)
SumOver(S, f) ==
    IF S = {} THEN 0
    ELSE LET x == CHOOSE y \in S : TRUE IN f[x] + SumOver(S \ {x}, f)

\* self.items.count()
DbItemsCount(ci, c) == Cardinality({p \in Products : ci[c][p] > 0})
\* self.items.aggregate(total=Sum('quantity'))['total'] or 0
DbTotalQuantity(ci, c) == SumOver(Products, ci[c])
\* self.items.aggregate(subtotal=Sum(F('quantity') * F('price')))['subtotal'] or 0
DbSubtotal(ci, c) == SumOver(Products, [p \in Products |-> ci[c][p] * Price(p)])

\* No save() or delete() call is being followed.
Idle ==
    [kind |-> "none", op |-> "idle", pc |-> 0, exists |-> FALSE, cached |-> FALSE,
     wrote |-> FALSE, invalidated |-> FALSE, raised |-> FALSE]

NoRet == [op |-> "none", id |-> 0, val |-> 0, ok |-> TRUE]
Ret(op, id, val, ok) == [op |-> op, id |-> id, val |-> val, ok |-> ok]

\* ------------------------------------------------------------------- Init
Init ==
    /\ cache = [k \in AllKeys |-> {}]
    /\ carts = {}
    /\ cartItems = [c \in Users |-> [p \in Products |-> 0]]
    /\ prod = [p \in Products |-> [exists |-> TRUE, active |-> TRUE, featured |-> FALSE]]
    /\ stock = [p \in Products |-> MaxStock]
    /\ orders = <<>>
    /\ brands = [b \in Brands |-> [exists |-> TRUE, active |-> TRUE]]
    /\ vmodels = [v \in VehicleModels |-> [exists |-> TRUE, active |-> TRUE]]
    /\ cats = [c \in Cats |-> [exists |-> c = 1, active |-> TRUE]]
    /\ life = Idle
    /\ wish = [u \in Users |-> [exists |-> FALSE, items |-> {}]]
    /\ clock = 0
    /\ otps = [i \in Identifiers |-> {}]
    /\ accounts = {}
    /\ race = [rpc |-> "idle", rval |-> 0, wpc |-> "idle", stale |-> {}]
    /\ making = [pc |-> "idle", id |-> 0, todo |-> <<>>]
    /\ co = [i \in Requests |-> [pc |-> "idle", qty |-> 0, seen |-> 0, order |-> 0]]
    /\ txns = <<>>
    /\ refunds = <<>>
    /\ paid = {}
    /\ pays = [i \in Requests |-> [pc |-> "idle", txn |-> 0, inst |-> 0, amount |-> 0]]
    /\ cancelling = [pc |-> "idle", order |-> 0, seen |-> "none"]
    /\ verifying = [r \in Requests |-> [pc |-> "idle", id |-> 0]]
    /\ wins = 0
    /\ page = [slug |-> 1, page_type |-> "about", is_active |-> TRUE]
    /\ tcache = [k \in UNION {CartAggregateKeys(u) \cup {CartKey(u)} : u \in Users} |-> {}]
    /\ configs = <<>>
    /\ saving = [r \in Requests |-> [pc |-> "idle", title |-> 0]]
    /\ last = NoRet

\* How many of the cart's aggregate keys hold a value.
CachedAggregates(ch, c) == Cardinality({k \in CartAggregateKeys(c) : Hit(ch, k)})

\* ---------------------------------------------------------- Cart (models)
\* Cart._invalidate_cache
CartInvalidateDropsSubtotal(ch, c) ==
    CacheDeleteMany(ch, {CartItemsCountKey(c), CartTotalQuantityKey(c)})

CartInvalidate(ch, c) == CacheDeleteMany(ch, CartAggregateKeys(c))

\* Cart.items_count, Cart.total_quantity, Cart.subtotal
ItemsCountProp(ch, ci, c) == ReadThrough(ch, CartItemsCountKey(c), DbItemsCount(ci, c))
TotalQuantityProp(ch, ci, c) ==
    ReadThrough(ch, CartTotalQuantityKey(c), DbTotalQuantity(ci, c))
SubtotalProp(ch, ci, c) == ReadThrough(ch, CartSubtotalKey(c), DbSubtotal(ci, c))

\* Cart.objects.get_or_create(user=user), as the views call it before a Cart method
CreateCart(u) ==
    /\ u \notin carts
    /\ carts' = carts \cup {u}
    /\ last' = Ret("get_or_create_cart", u, 0, TRUE)
    /\ UNCHANGED <<cache, cartItems, prod, stock, orders, catalogVars, otherVars>>

ReadItemsCount(c) ==
    /\ c \in carts
    /\ LET r == ItemsCountProp(cache, cartItems, c)
       IN /\ cache' = r.cache
          /\ last' = Ret("items_count", c, r.val, TRUE)
    /\ UNCHANGED <<carts, cartItems, prod, stock, orders, catalogVars, otherVars>>

ReadTotalQuantity(c) ==
    /\ c \in carts
    /\ LET r == TotalQuantityProp(cache, cartItems, c)
       IN /\ cache' = r.cache
          /\ last' = Ret("total_quantity", c, r.val, TRUE)
    /\ UNCHANGED <<carts, cartItems, prod, stock, orders, catalogVars, otherVars>>

ReadSubtotal(c) ==
    /\ c \in carts
    /\ LET r == SubtotalProp(cache, cartItems, c)
       IN /\ cache' = r.cache
          /\ last' = Ret("subtotal", c, r.val, TRUE)
    /\ UNCHANGED <<carts, cartItems, prod, stock, orders, catalogVars, otherVars>>

\* Cart.add_item: get_or_create the row, or add to its quantity and save it; then
\* self.save() and self._invalidate_cache().  val: the aggregates cached at the call.
AddItem(c, p, q) ==
    /\ c \in carts
    /\ prod[p].exists
    /\ cartItems[c][p] + q <= MaxQty
    /\ cartItems' = [cartItems EXCEPT ![c][p] = @ + q]
    /\ cache' = CartInvalidate(cache, c)
    /\ last' = Ret("add_item", c, CachedAggregates(cache, c), TRUE)
    /\ UNCHANGED <<carts, prod, stock, orders, catalogVars, otherVars>>

\* Cart.remove_item: False, and nothing else, when the product is not in the cart
RemoveItemAs(op, c, p) ==
    /\ c \in carts
    /\ IF cartItems[c][p] > 0
       THEN /\ cartItems' = [cartItems EXCEPT ![c][p] = 0]
            /\ cache' = CartInvalidate(cache, c)
            /\ last' = Ret(op, c, CachedAggregates(cache, c), TRUE)
       ELSE /\ last' = Ret(op, c, CachedAggregates(cache, c), FALSE)
            /\ UNCHANGED <<cartItems, cache>>
    /\ UNCHANGED <<carts, prod, stock, orders, catalogVars, otherVars>>

RemoveItem(c, p) == RemoveItemAs("remove_item", c, p)

\* Cart.update_item_quantity: remove_item for a quantity <= 0; None, and nothing
\* else, when the product is not in the cart
UpdateItemQuantity(c, p, q) ==
    IF q <= 0 THEN RemoveItemAs("update_item_quantity", c, p)
    ELSE
    /\ c \in carts
    /\ IF cartItems[c][p] > 0
       THEN /\ cartItems' = [cartItems EXCEPT ![c][p] = q]
            /\ cache' = CartInvalidate(cache, c)
            /\ last' = Ret("update_item_quantity", c, CachedAggregates(cache, c), TRUE)
       ELSE /\ last' = Ret("update_item_quantity", c, CachedAggregates(cache, c), FALSE)
            /\ UNCHANGED <<cartItems, cache>>
    /\ UNCHANGED <<carts, prod, stock, orders, catalogVars, otherVars>>

\* Cart.clear
ClearCart(c) ==
    /\ c \in carts
    /\ cartItems' = [cartItems EXCEPT ![c] = [p \in Products |-> 0]]
    /\ cache' = CartInvalidate(cache, c)
    /\ last' = Ret("clear", c, CachedAggregates(cache, c), TRUE)
    /\ UNCHANGED <<carts, prod, stock, orders, catalogVars, otherVars>>

\* ------------------------------------- the Cart methods and its properties
NextCart ==
    \/ \E u \in Users : CreateCart(u)
    \/ \E c \in Users : ReadItemsCount(c)
    \/ \E c \in Users : ReadTotalQuantity(c)
    \/ \E c \in Users : ReadSubtotal(c)
    \/ \E c \in Users, p \in Products, q \in 1..MaxQty : AddItem(c, p, q)
    \/ \E c \in Users, p \in Products : RemoveItem(c, p)
    \/ \E c \in Users, p \in Products, q \in 0..MaxQty : UpdateItemQuantity(c, p, q)
    \/ \E c \in Users : ClearCart(c)

SpecCart == Init /\ [][NextCart]_vars

\* The Cart methods that write CartItem rows.
CartCalls == {"add_item", "remove_item", "update_item_quantity", "clear"}

\* C1 as stated: after every Cart.add_item, remove_item, update_item_quantity and
\* clear call the next read of an aggregate equals the Store's, and no aggregate
\* cached before the call is left for that read to return.
C1_NoCachedValueAfterAnyCall ==
    /\ last.op = "items_count" => last.val = DbItemsCount(cartItems, last.id)
    /\ last.op = "total_quantity" => last.val = DbTotalQuantity(cartItems, last.id)
    /\ last.op = "subtotal" => last.val = DbSubtotal(cartItems, last.id)
    /\ last.op \in CartCalls => CachedAggregates(cache, last.id) = 0

\* C1 (amended): every read of items_count, total_quantity and subtotal returns the
\* Store's row count, sum of quantity and sum of quantity x price; and after every
\* call that wrote a CartItem row none of the three keys holds a value.  A
\* remove_item or update_item_quantity for a product that is not in the cart
\* writes nothing and invalidates nothing.
C1_ReadsEqualStore ==
    /\ last.op = "items_count" => last.val = DbItemsCount(cartItems, last.id)
    /\ last.op = "total_quantity" => last.val = DbTotalQuantity(cartItems, last.id)
    /\ last.op = "subtotal" => last.val = DbSubtotal(cartItems, last.id)
    /\ (last.op \in CartCalls /\ last.ok) => CachedAggregates(cache, last.id) = 0

\* A quantity update ran on a cart whose three aggregates were all cached, and the
\* cart now holds a line of two.
C1_Witness ==
    /\ last.op = "update_item_quantity"
    /\ last.ok
    /\ last.val = 3
    /\ \E p \in Products : cartItems[last.id][p] = 2

\* --------------------------------------------------- cart summary and list
\* The pickled Cart instance that get_cart_summary stores under cart_{user.id}
CartObject(u) == [kind |-> "Cart", id |-> u]
\* CartSerializer(cart).data, which CartViewSet.list stores under the same key
CartResponse(ic, tq, st) ==
    [kind |-> "response", items_count |-> ic, total_quantity |-> tq, subtotal |-> st]

SummaryDict(ic, tq, st, err) ==
    [items_count |-> ic, total_quantity |-> tq, subtotal |-> st, error |-> err]

\* The three properties read one after the other, each through its own key.
ReadAggregates(ch, ci, c) ==
    LET a == ItemsCountProp(ch, ci, c)
        b == TotalQuantityProp(a.cache, ci, c)
        d == SubtotalProp(b.cache, ci, c)
    IN [cache |-> d.cache, ic |-> a.val, tq |-> b.val, st |-> d.val]

\* get_cart_summary(user): the cache after the call and the dict it returns.  A
\* cached value that is not a Cart has no items_count attribute; the except clause
\* turns the AttributeError into the zero summary with an error.
SummaryOf(ch, ci, u) ==
    LET k == CartKey(u)
        ch1 == IF Hit(ch, k) THEN ch ELSE CacheSet(ch, k, CartObject(u))
        cart == Value(ch1, k)
    IN IF cart.kind = "Cart"
       THEN LET r == ReadAggregates(ch1, ci, cart.id)
            IN [cache |-> r.cache, val |-> SummaryDict(r.ic, r.tq, r.st, FALSE)]
       ELSE [cache |-> ch1, val |-> SummaryDict(0, 0, 0, TRUE)]

GetCartSummary(u) ==
    /\ LET r == SummaryOf(cache, cartItems, u)
       IN /\ cache' = r.cache
          /\ last' = Ret("get_cart_summary", u, r.val, ~r.val.error)
    /\ carts' = IF Hit(cache, CartKey(u)) THEN carts ELSE carts \cup {u}
    /\ UNCHANGED <<cartItems, prod, stock, orders, catalogVars, otherVars>>

\* CartViewSet.list: the cached value as it is, or get_object (get_or_create) and
\* the serialized cart, stored under cart_{user.id}
ListCart(u) ==
    /\ IF Hit(cache, CartKey(u))
       THEN /\ last' = Ret("cart_list", u, Value(cache, CartKey(u)),
                           Value(cache, CartKey(u)).kind = "response")
            /\ UNCHANGED <<cache, carts>>
       ELSE LET r == ReadAggregates(cache, cartItems, u)
                resp == CartResponse(r.ic, r.tq, r.st)
            IN /\ carts' = carts \cup {u}
               /\ cache' = CacheSet(r.cache, CartKey(u), resp)
               /\ last' = Ret("cart_list", u, resp, TRUE)
    /\ UNCHANGED <<cartItems, prod, stock, orders, catalogVars, otherVars>>

\* ------------------------------------------------------------------ orders
Statuses == {"pending", "confirmed", "shipped", "cancelled"}

\* invalidate_order_cache(order_id)
InvalidateOrderCache(ch, o) == CacheDeleteMany(ch, {OrderKey(o), OrderItemsKey(o)})
\* invalidate_user_orders_cache(user_id)
InvalidateUserOrdersCache(ch, u) == CacheDeleteMany(ch, {UserOrdersKey(u)})
\* Order.save, after super().save()
OrderSaveInvalidate(ch, o, u) == InvalidateUserOrdersCache(InvalidateOrderCache(ch, o), u)

\* OrderSerializer.get_items: the order's items through order_items_{id}
GetItems(ch, ords, o) == ReadThrough(ch, OrderItemsKey(o), ords[o].items)

\* OrderSerializer(order).data
SerializeOrder(ch, ords, o) ==
    LET r == GetItems(ch, ords, o)
    IN [cache |-> r.cache,
        val |-> [id |-> o, user |-> ords[o].user, status |-> ords[o].status,
                 items |-> r.val]]

\* OrderViewSet.get_queryset
VisibleOrders(ords, u) ==
    {o \in DOMAIN ords : u \in Staff \/ ords[o].user = u}

\* OrderSerializer(queryset, many=True).data, newest first
RECURSIVE SerializeOrders(_, _, _, _)
SerializeOrders(ch, ords, u, o) ==
    IF o = 0 THEN [cache |-> ch, val |-> <<>>]
    ELSE IF o \notin VisibleOrders(ords, u) THEN SerializeOrders(ch, ords, u, o - 1)
    ELSE LET r == SerializeOrder(ch, ords, o)
             rest == SerializeOrders(r.cache, ords, u, o - 1)
         IN [cache |-> rest.cache, val |-> <<r.val>> \o rest.val]

\* OrderViewSet.list: the cache after the call and the payload
OrderListOf(ch, ords, u) ==
    IF Hit(ch, UserOrdersKey(u)) THEN [cache |-> ch, val |-> Value(ch, UserOrdersKey(u))]
    ELSE LET r == SerializeOrders(ch, ords, u, Len(ords))
         IN [cache |-> CacheSet(r.cache, UserOrdersKey(u), r.val), val |-> r.val]

OrderList(u) ==
    /\ LET r == OrderListOf(cache, orders, u)
       IN /\ cache' = r.cache
          /\ last' = Ret("order_list", u, r.val, TRUE)
    /\ UNCHANGED <<carts, cartItems, prod, stock, orders, catalogVars, otherVars>>

\* ---------------------------------------------------------------- checkout
\* The users who check out, and the item lists a request can carry: one or two
\* lines, each a product id and a quantity, the smallest or the largest one.
Buyers == {1}
ItemLines == Products \X {1, MaxQty}
CheckoutItems == {<<a>> : a \in ItemLines} \cup {<<a, b>> : a \in ItemLines, b \in ItemLines}

\* The validation loop: every line's product exists and its stock_quantity is not
\* below the line's quantity, each line against the stock in the Store.
ItemsValid(pr, st, items) ==
    \A i \in 1..Len(items) : pr[items[i][1]].exists /\ st[items[i][1]] >= items[i][2]

\* The stock loop: product.stock_quantity -= quantity; product.save() per line.
\* stock_quantity is a PositiveIntegerField: the UPDATE that would store a negative
\* value violates its CHECK constraint and raises IntegrityError, and the loop ends
\* there with the earlier lines' updates committed.
RECURSIVE DecrementStock(_, _, _)
DecrementStock(st, items, i) ==
    IF i > Len(items) THEN [stock |-> st, failed |-> FALSE, saved |-> {}]
    ELSE LET p == items[i][1]
             q == items[i][2]
         IN IF st[p] - q < 0 THEN [stock |-> st, failed |-> TRUE, saved |-> {}]
            ELSE LET r == DecrementStock([st EXCEPT ![p] = @ - q], items, i + 1)
                 IN [r EXCEPT !.saved = @ \cup {p}]

\* invalidate_product_cache(self.id), as Product.save calls it
InvalidateProductCache(ch, p) == CacheDeleteMany(ch, {ProductInstanceKey(p)})

\* The end of checkout for a user with a cart: cart._invalidate_cache() and the
\* deletes of cart_{user.id} and cart_items_{user.id}
CheckoutCartInvalidateKeepsAggregates(ch, u) ==
    CacheDeleteMany(ch, {CartKey(u), CartItemsKey(u)})

CheckoutCartInvalidate(ch, u) ==
    CacheDeleteMany(CartInvalidate(ch, u), {CartKey(u), CartItemsKey(u)})

ItemProducts(items) == {items[i][1] : i \in 1..Len(items)}

\* Whether the cart summary, the three aggregates and the order list are all cached.
Warm(ch, u) ==
    /\ Hit(ch, CartKey(u))
    /\ CachedAggregates(ch, u) = 3
    /\ Hit(ch, UserOrdersKey(u))

CheckoutRet(u, code, o, warm) ==
    Ret("checkout", u, [status |-> code, order |-> o, warm |-> warm], code = 201)

\* OrderViewSet.checkout for an authenticated user.  The view opens no transaction:
\* every row it writes is committed when it is written.
Checkout(u, items) ==
    /\ Len(orders) < MaxOrders
    /\ IF ~ItemsValid(prod, stock, items)
       THEN /\ last' = CheckoutRet(u, 400, 0, Warm(cache, u))
            /\ UNCHANGED <<cache, cartItems, stock, orders>>
       ELSE LET o == Len(orders) + 1
                \* OrderCreateSerializer.create: the Order row, then its OrderItems
                ch1 == OrderSaveInvalidate(cache, o, u)
                r == DecrementStock(stock, items, 1)
                ch2 == CacheDeleteMany(ch1, {ProductInstanceKey(p) : p \in r.saved})
                ch3 == InvalidateUserOrdersCache(ch2, u)
            IN /\ orders' = Append(orders, [user |-> u, status |-> "pending",
                                            items |-> items])
               /\ stock' = r.stock
               /\ IF r.failed
                  THEN /\ cache' = ch2
                       /\ last' = CheckoutRet(u, 500, o, Warm(cache, u))
                       /\ UNCHANGED cartItems
                  ELSE /\ last' = CheckoutRet(u, 201, o, Warm(cache, u))
                       /\ IF u \in carts
                          THEN /\ cartItems' =
                                    [cartItems EXCEPT ![u] =
                                        [p \in Products |->
                                            IF p \in ItemProducts(items) THEN 0 ELSE @[p]]]
                               /\ cache' = CheckoutCartInvalidate(ch3, u)
                          ELSE /\ cache' = ch3
                               /\ UNCHANGED cartItems
    /\ UNCHANGED <<carts, prod, catalogVars, otherVars>>

\* --------------------------------------- checkout, the cart and the order list
NextCheckout ==
    \/ \E u \in Buyers : CreateCart(u)
    \/ \E u \in Buyers, p \in Products, q \in 1..MaxQty : AddItem(u, p, q)
    \/ \E u \in Buyers : GetCartSummary(u)
    \/ \E u \in Buyers : ListCart(u)
    \/ \E u \in Buyers : OrderList(u)
    \/ \E u \in Buyers, items \in CheckoutItems : Checkout(u, items)

SpecCheckout == Init /\ [][NextCheckout]_vars

\* C2: once a checkout by an authenticated user has returned 201, the purchased
\* products are out of the cart, get_cart_summary returns the aggregates of what is
\* left in the cart, and the order list contains the new order, whatever was cached
\* when the checkout began.
C2_AfterCheckoutFresh ==
    (last.op = "checkout" /\ last.ok) =>
        LET u == last.id
            o == last.val.order
        IN /\ (u \in carts => \A p \in ItemProducts(orders[o].items) : cartItems[u][p] = 0)
           /\ SummaryOf(cache, cartItems, u).val =
                  SummaryDict(DbItemsCount(cartItems, u), DbTotalQuantity(cartItems, u),
                              DbSubtotal(cartItems, u), FALSE)
           /\ \E i \in DOMAIN OrderListOf(cache, orders, u).val :
                  OrderListOf(cache, orders, u).val[i] =
                      [id |-> o, user |-> u, status |-> "pending",
                       items |-> orders[o].items]

\* A checkout succeeded that began with the cart summary, the three aggregates and
\* the order list all cached, and it left one product in the cart.
C2_Witness ==
    /\ last.op = "checkout"
    /\ last.ok
    /\ last.val.warm
    /\ DbItemsCount(cartItems, last.id) = 1

\* C10: when a checkout fails after validation, with the IntegrityError of a stock
\* update, no Order row, no OrderItem row and no stock decrement of that checkout
\* is in the Store.
C10_CheckoutAllOrNothing ==
    [][(last'.op = "checkout" /\ last'.val.status = 500) => UNCHANGED <<orders, stock>>]_vars

\* ------------------------------------------------ products and their lookups
\* The pickled Product instance that the lookups store
ProductObject(pr, st, p) ==
    [id |-> p, is_active |-> pr[p].active, is_featured |-> pr[p].featured,
     stock_quantity |-> st[p]]

\* Product.objects.get(slug=..., is_active=True), or None: the set of what it finds
LookupOf(pr, st, p) ==
    IF pr[p].exists /\ pr[p].active THEN {ProductObject(pr, st, p)} ELSE {}

\* get_product_by_slug / get_product_by_sku: the cached instance, or the query; a
\* found instance is stored, None is not.
ProductLookup(op, k, p) ==
    /\ IF Hit(cache, k)
       THEN /\ last' = Ret(op, p, {Value(cache, k)}, TRUE)
            /\ UNCHANGED cache
       ELSE LET found == LookupOf(prod, stock, p)
            IN /\ cache' = IF found = {} THEN cache
                           ELSE CacheSet(cache, k, ProductObject(prod, stock, p))
               /\ last' = Ret(op, p, found, found # {})
    /\ UNCHANGED <<carts, cartItems, prod, stock, orders, catalogVars, otherVars>>

GetProductBySlug(p) == ProductLookup("get_product_by_slug", ProductBySlugKey(p), p)
GetProductBySku(p) == ProductLookup("get_product_by_sku", ProductBySkuKey(p), p)

\* Product.save of an existing product with new is_active and is_featured values:
\* super().save(), then invalidate_product_cache(self.id)
ProductSave(p, a, f) ==
    /\ prod[p].exists
    /\ prod' = [prod EXCEPT ![p].active = a, ![p].featured = f]
    /\ cache' = InvalidateProductCache(cache, p)
    /\ last' = Ret("product_save", p, 0, TRUE)
    /\ UNCHANGED <<carts, cartItems, stock, orders, catalogVars, otherVars>>

\* The order without its lines for product p (OrderItem.product is on_delete=CASCADE)
WithoutProduct(order, p) ==
    [order EXCEPT !.items = SelectSeq(@, LAMBDA line : line[1] # p)]

\* Product.delete: invalidate_product_cache(self.id), then super().delete(), which
\* cascades to the CartItem and OrderItem rows of the product
ProductDelete(p) ==
    /\ prod[p].exists
    /\ cache' = InvalidateProductCache(cache, p)
    /\ prod' = [prod EXCEPT ![p].exists = FALSE]
    /\ cartItems' = [c \in Users |-> [cartItems[c] EXCEPT ![p] = 0]]
    /\ orders' = [o \in DOMAIN orders |-> WithoutProduct(orders[o], p)]
    /\ last' = Ret("product_delete", p, 0, TRUE)
    /\ UNCHANGED <<carts, stock, catalogVars, otherVars>>

NextProduct ==
    \/ \E p \in Products : GetProductBySlug(p)
    \/ \E p \in Products : GetProductBySku(p)
    \/ \E p \in Products, a \in BOOLEAN, f \in BOOLEAN : ProductSave(p, a, f)
    \/ \E p \in Products : ProductDelete(p)

SpecProduct == Init /\ [][NextProduct]_vars

\* C5: get_product_by_slug and get_product_by_sku return the product as the Store
\* holds it after the last save, and not-found after a delete.
C5_LookupsAfterWrite ==
    last.op \in {"get_product_by_slug", "get_product_by_sku"} =>
        last.val = LookupOf(prod, stock, last.id)

\* ------------------------------------------ CartItem rows written directly
\* CartItem.save for a new or an existing row (the admin's add and change forms):
\* the price is set, the row is written, no key is deleted
CartItemSave(c, p, q) ==
    /\ c \in carts
    /\ prod[p].exists
    /\ cartItems' = [cartItems EXCEPT ![c][p] = q]
    /\ last' = Ret("cart_item_save", c, CachedAggregates(cache, c), TRUE)
    /\ UNCHANGED <<cache, carts, prod, stock, orders, catalogVars, otherVars>>

\* CartItem.delete, which the model does not override
CartItemDelete(c, p) ==
    /\ c \in carts
    /\ cartItems[c][p] > 0
    /\ cartItems' = [cartItems EXCEPT ![c][p] = 0]
    /\ last' = Ret("cart_item_delete", c, CachedAggregates(cache, c), TRUE)
    /\ UNCHANGED <<cache, carts, prod, stock, orders, catalogVars, otherVars>>

NextCartWrites ==
    \/ \E u \in Buyers : CreateCart(u)
    \/ \E c \in Buyers : ReadItemsCount(c)
    \/ \E c \in Buyers : ReadTotalQuantity(c)
    \/ \E c \in Buyers : ReadSubtotal(c)
    \/ \E c \in Buyers, p \in Products, q \in 1..MaxQty : AddItem(c, p, q)
    \/ \E c \in Buyers, p \in Products : RemoveItem(c, p)
    \/ \E c \in Buyers, p \in Products, q \in 0..MaxQty : UpdateItemQuantity(c, p, q)
    \/ \E c \in Buyers : ClearCart(c)
    \/ \E c \in Buyers, p \in Products, q \in 1..MaxQty : CartItemSave(c, p, q)
    \/ \E c \in Buyers, p \in Products : CartItemDelete(c, p)
    \/ \E p \in Products : ProductDelete(p)

SpecCartWrites == Init /\ [][NextCartWrites]_vars

\* C3: every step that creates, changes or deletes a CartItem row leaves none of
\* the parent cart's three aggregate keys in the cache.
C3_EveryWritePathInvalidates ==
    [][\A c \in Users :
          cartItems'[c] # cartItems[c] => CachedAggregates(cache', c) = 0]_vars

\* ------------------------------------------------------------ order detail
\* OrderViewSet.retrieve: the payload cached under order_{order_number}, or
\* get_object (404 outside the requester's queryset), the serialized order, stored
RetrieveOf(ch, ords, u, o) ==
    IF Hit(ch, OrderNumberKey(o))
    THEN [cache |-> ch, val |-> Value(ch, OrderNumberKey(o)), code |-> 200]
    ELSE IF o \notin VisibleOrders(ords, u) THEN [cache |-> ch, val |-> 0, code |-> 404]
    ELSE LET r == SerializeOrder(ch, ords, o)
         IN [cache |-> CacheSet(r.cache, OrderNumberKey(o), r.val), val |-> r.val,
             code |-> 200]

Retrieve(u, o) ==
    /\ LET r == RetrieveOf(cache, orders, u, o)
       IN /\ cache' = r.cache
          /\ last' = Ret("retrieve", o, r.val, r.code = 200)
    /\ UNCHANGED <<carts, cartItems, prod, stock, orders, catalogVars, otherVars>>

\* Order.update_status: the status is set and saved (Order.save invalidates), the
\* status log row is created, and the same keys are deleted once more
OrderUpdateStatus(ch, ords, o, s) ==
    [cache |-> OrderSaveInvalidate(OrderSaveInvalidate(ch, o, ords[o].user), o,
                                   ords[o].user),
     orders |-> [ords EXCEPT ![o].status = s]]

\* OrderViewSet.update_status: 403 for a requester who is not staff
UpdateStatus(u, o, s) ==
    /\ IF u \notin Staff
       THEN /\ last' = Ret("update_status", o, 403, FALSE)
            /\ UNCHANGED <<cache, orders>>
       ELSE IF o \notin VisibleOrders(orders, u)
       THEN /\ last' = Ret("update_status", o, 404, FALSE)
            /\ UNCHANGED <<cache, orders>>
       ELSE LET r == OrderUpdateStatus(cache, orders, o, s)
            IN /\ cache' = r.cache
               /\ orders' = r.orders
               /\ last' = Ret("update_status", o, 200, TRUE)
    /\ UNCHANGED <<carts, cartItems, prod, stock, catalogVars, otherVars>>

\* Order.can_be_cancelled
CanBeCancelled(order) == order.status \in {"pending", "confirmed"}

\* OrderViewSet.cancel
Cancel(u, o) ==
    /\ IF o \notin VisibleOrders(orders, u)
       THEN /\ last' = Ret("cancel", o, 404, FALSE)
            /\ UNCHANGED <<cache, orders>>
       ELSE IF ~CanBeCancelled(orders[o])
       THEN /\ last' = Ret("cancel", o, 400, FALSE)
            /\ UNCHANGED <<cache, orders>>
       ELSE LET r == OrderUpdateStatus(cache, orders, o, "cancelled")
            IN /\ cache' = r.cache
               /\ orders' = r.orders
               /\ last' = Ret("cancel", o, 200, TRUE)
    /\ UNCHANGED <<carts, cartItems, prod, stock, catalogVars, otherVars>>

\* Order.save of an order whose status was assigned (the admin's change form)
OrderSave(o, s) ==
    /\ o \in DOMAIN orders
    /\ orders' = [orders EXCEPT ![o].status = s]
    /\ cache' = OrderSaveInvalidate(cache, o, orders[o].user)
    /\ last' = Ret("order_save", o, 0, TRUE)
    /\ UNCHANGED <<carts, cartItems, prod, stock, catalogVars, otherVars>>

NextOrder ==
    \/ \E u \in Buyers, items \in CheckoutItems : Checkout(u, items)
    \/ \E u \in Users : OrderList(u)
    \/ \E u \in Users, o \in OrderIds : Retrieve(u, o)
    \/ \E u \in Users, o \in OrderIds, s \in Statuses : UpdateStatus(u, o, s)
    \/ \E u \in Users, o \in OrderIds : Cancel(u, o)
    \/ \E o \in OrderIds, s \in Statuses : OrderSave(o, s)

SpecOrder == Init /\ [][NextOrder]_vars

\* C4: a retrieve through the order detail endpoint returns the order's status as
\* the Store holds it, also after Order.save or Order.update_status changed it.
C4_RetrieveIsCurrent ==
    (last.op = "retrieve" /\ last.ok) => last.val.status = orders[last.id].status

\* ----------------------------------------------------------- the catalogue
\* Brand.objects.filter(is_active=True)
ActiveBrands(br) == {b \in Brands : br[b].exists /\ br[b].active}
\* VehicleModel.objects.filter(is_active=True)
ActiveModels(vm) == {v \in VehicleModels : vm[v].exists /\ vm[v].active}
\* PartCategory.objects.filter(is_active=True)
ActiveCategories(ct) == {c \in Cats : ct[c].exists /\ ct[c].active}
\* Product.objects.filter(is_active=True, is_featured=True)
FeaturedProducts(pr) == {p \in Products : pr[p].exists /\ pr[p].active /\ pr[p].featured}
\* category.subcategories
Subcategories(ct, c) == {d \in Cats : ct[d].exists /\ Parent(d) = c}

\* get_navigation_tree: the active brands with their active models, the active
\* top-level categories with their active subcategories
NavigationTree(br, vm, ct) ==
    [brands |-> {[id |-> b, models |-> ActiveModels(vm)] : b \in ActiveBrands(br)},
     categories |->
        {[id |-> c, subcategories |-> Subcategories(ct, c) \cap ActiveCategories(ct)]
           : c \in {d \in ActiveCategories(ct) : Parent(d) = 0}}]

\* get_landing_page_content: of the bundle, the featured products and the brands
LandingPageContent(pr, br) ==
    [featured_products |-> FeaturedProducts(pr), featured_brands |-> ActiveBrands(br)]

\* The accessors of the global collections: each is a read-through of its key
GlobalRead(op, k, dbv) ==
    /\ LET r == ReadThrough(cache, k, dbv)
       IN /\ cache' = r.cache
          /\ last' = Ret(op, 0, r.val, TRUE)
    /\ UNCHANGED <<carts, cartItems, prod, stock, orders, catalogVars, otherVars>>

GetActiveBrands == GlobalRead("get_active_brands", ActiveBrandsKey, ActiveBrands(brands))
GetActiveModels == GlobalRead("get_active_models", ActiveModelsKey, ActiveModels(vmodels))
GetActiveCategories ==
    GlobalRead("get_active_categories", ActiveCategoriesKey, ActiveCategories(cats))
GetFeaturedProducts ==
    GlobalRead("get_featured_products", FeaturedProductsKey(FeaturedLimit),
               FeaturedProducts(prod))
GetNavigationTree ==
    GlobalRead("get_navigation_tree", NavigationTreeKey,
               NavigationTree(brands, vmodels, cats))
GetLandingPageContent ==
    GlobalRead("get_landing_page_content", LandingPageContentKey,
               LandingPageContent(prod, brands))

\* PartCategory.is_parent
IsParent(c) ==
    /\ cats[c].exists
    /\ LET r == ReadThrough(cache, IsParentKey(c), Subcategories(cats, c) # {})
       IN /\ cache' = r.cache
          /\ last' = Ret("is_parent", c, r.val, TRUE)
    /\ UNCHANGED <<carts, cartItems, prod, stock, orders, catalogVars, otherVars>>

\* invalidate_brand_cache(brand_id)
InvalidateBrandCache(ch, b) == CacheDeleteMany(ch, BrandKeys(b))

\* Brand.save of an existing brand: super().save(), then invalidate_brand_cache
BrandSave(b, a) ==
    /\ brands[b].exists
    /\ brands' = [brands EXCEPT ![b].active = a]
    /\ cache' = InvalidateBrandCache(cache, b)
    /\ last' = Ret("brand_save", b, 0, TRUE)
    /\ UNCHANGED <<carts, cartItems, prod, stock, orders, vmodels, cats, otherVars>>

\* Brand.delete: invalidate_brand_cache, then super().delete(), which cascades to
\* the brand's vehicle models and products and to their cart and order lines
BrandDelete(b) ==
    /\ brands[b].exists
    /\ cache' = InvalidateBrandCache(cache, b)
    /\ brands' = [brands EXCEPT ![b].exists = FALSE]
    /\ vmodels' = [v \in VehicleModels |-> [vmodels[v] EXCEPT !.exists = FALSE]]
    /\ prod' = [p \in Products |-> [prod[p] EXCEPT !.exists = FALSE]]
    /\ cartItems' = [c \in Users |-> [p \in Products |-> 0]]
    /\ orders' = [o \in DOMAIN orders |-> [orders[o] EXCEPT !.items = <<>>]]
    /\ last' = Ret("brand_delete", b, 0, TRUE)
    /\ UNCHANGED <<carts, stock, cats, otherVars>>

\* VehicleModel.save: super().save() writes the row, then
\* "from .cache_utils import invalidate_model_cache" raises ImportError, the module
\* defining no such name
VehicleModelSave(v, a) ==
    /\ vmodels[v].exists
    /\ vmodels' = [vmodels EXCEPT ![v].active = a]
    /\ last' = Ret("vehicle_model_save", v, "ImportError", FALSE)
    /\ UNCHANGED <<cache, carts, cartItems, prod, stock, orders, brands, cats, otherVars>>

\* VehicleModel.delete: the same import raises before super().delete() is reached
VehicleModelDelete(v) ==
    /\ vmodels[v].exists
    /\ last' = Ret("vehicle_model_delete", v, "ImportError", FALSE)
    /\ UNCHANGED <<cache, carts, cartItems, prod, stock, orders, catalogVars, otherVars>>

\* PartCategory.save of a new or an existing category: super().save() writes the
\* row, then "from .cache_utils import invalidate_category_cache" raises ImportError
PartCategorySave(c, a) ==
    /\ Parent(c) # 0 => cats[Parent(c)].exists
    /\ cats' = [cats EXCEPT ![c] = [exists |-> TRUE, active |-> a]]
    /\ last' = Ret("part_category_save", c, "ImportError", FALSE)
    /\ UNCHANGED <<cache, carts, cartItems, prod, stock, orders, brands, vmodels, otherVars>>

\* PartCategory.delete: the import raises before super().delete() is reached
PartCategoryDelete(c) ==
    /\ cats[c].exists
    /\ last' = Ret("part_category_delete", c, "ImportError", FALSE)
    /\ UNCHANGED <<cache, carts, cartItems, prod, stock, orders, catalogVars, otherVars>>

\* bulk_edit_products --set-featured: products.update(is_featured=...), a queryset
\* update that calls no save() and deletes no key
BulkSetFeatured(f) ==
    /\ prod' = [p \in Products |-> IF prod[p].exists THEN [prod[p] EXCEPT !.featured = f]
                                   ELSE prod[p]]
    /\ last' = Ret("bulk_set_featured", 0, 0, TRUE)
    /\ UNCHANGED <<cache, carts, cartItems, stock, orders, catalogVars, otherVars>>

\* bulk_edit_products --set-active: products.update(is_active=...)
BulkSetActive(a) ==
    /\ prod' = [p \in Products |-> IF prod[p].exists THEN [prod[p] EXCEPT !.active = a]
                                   ELSE prod[p]]
    /\ last' = Ret("bulk_set_active", 0, 0, TRUE)
    /\ UNCHANGED <<cache, carts, cartItems, stock, orders, catalogVars, otherVars>>

\* ----------------------------------------- brands, products and their lists
NextCatalog ==
    \/ GetActiveBrands
    \/ GetFeaturedProducts
    \/ GetLandingPageContent
    \/ \E b \in Brands, a \in BOOLEAN : BrandSave(b, a)
    \/ \E b \in Brands : BrandDelete(b)
    \/ \E p \in Products, a \in BOOLEAN, f \in BOOLEAN : ProductSave(p, a, f)
    \/ \E p \in Products : ProductDelete(p)
    \/ \E f \in BOOLEAN : BulkSetFeatured(f)
    \/ \E a \in BOOLEAN : BulkSetActive(a)

SpecCatalog == Init /\ [][NextCatalog]_vars

\* The global collection keys an entity of each kind can appear in.
BrandListKeys == {ActiveBrandsKey, NavigationTreeKey, LandingPageContentKey}
VehicleModelListKeys == {ActiveModelsKey, NavigationTreeKey}
PartCategoryListKeys == {ActiveCategoriesKey, NavigationTreeKey}
ProductListKeys == {FeaturedProductsKey(FeaturedLimit), LandingPageContentKey}

NoneCached(ch, ks) == \A k \in ks : ~Hit(ch, k)

\* C6: every write to a Brand, VehicleModel, PartCategory or Product row, by a model
\* save, a model delete or the bulk edit command's queryset update, leaves none of
\* the global collection keys that the entity can appear in in the cache.
C6_WritesDeleteGlobalKeys ==
    [][/\ brands' # brands => NoneCached(cache', BrandListKeys)
       /\ vmodels' # vmodels => NoneCached(cache', VehicleModelListKeys)
       /\ cats' # cats => NoneCached(cache', PartCategoryListKeys)
       /\ prod' # prod => NoneCached(cache', ProductListKeys)]_vars

\* ------------------------- vehicle models, part categories and their parents
NextCategory ==
    \/ GetActiveModels
    \/ GetActiveCategories
    \/ GetNavigationTree
    \/ \E c \in Cats : IsParent(c)
    \/ \E b \in Brands, a \in BOOLEAN : BrandSave(b, a)
    \/ \E v \in VehicleModels, a \in BOOLEAN : VehicleModelSave(v, a)
    \/ \E v \in VehicleModels : VehicleModelDelete(v)
    \/ \E c \in Cats, a \in BOOLEAN : PartCategorySave(c, a)
    \/ \E c \in Cats : PartCategoryDelete(c)

SpecCategory == Init /\ [][NextCategory]_vars

\* C7: after a PartCategory that has a parent was saved or deleted, the parent's
\* subcategory keys are gone from the cache, so what the parent reports about its
\* subcategories is what the Store holds.
C7_ParentSeesItsChildren ==
    last.op = "is_parent" => last.val = (Subcategories(cats, last.id) # {})

\* ------------------------------------------- save() and delete(), step by step
\* One instance of one entity kind and its cached copy, followed through the
\* statements of its save() and delete(): "store" is super().save() or
\* super().delete(), "invalidate" the deletion of the entity's keys, "raise" a
\* statement that raises.  The landing blocks (HeroBanner, FeaturedVehicle,
\* CategorySection, AdvertisementBanner, Testimonial) have the same statements.
Kinds ==
    {"Brand", "VehicleModel", "PartCategory", "Product", "Page", "FAQ", "HeroBanner",
     "Order", "Transaction"}

\* Brand, Product, Page and FAQ: save() writes and then invalidates, delete()
\* invalidates and then deletes.  VehicleModel and PartCategory: save() writes and
\* then imports invalidate_model_cache / invalidate_category_cache, which raises
\* ImportError, and delete() raises at that import.  The landing blocks write or
\* delete first and invalidate afterwards.  Order and Transaction override save()
\* only.
Steps(kind, op) ==
    CASE kind \in {"Brand", "Product", "Page", "FAQ"} ->
            IF op = "save" THEN <<"store", "invalidate">> ELSE <<"invalidate", "store">>
      [] kind \in {"VehicleModel", "PartCategory"} ->
            IF op = "save" THEN <<"store", "raise">> ELSE <<"raise">>
      [] kind = "HeroBanner" -> <<"store", "invalidate">>
      [] kind \in {"Order", "Transaction"} ->
            IF op = "save" THEN <<"store", "invalidate">> ELSE <<"store">>
      [] OTHER -> <<>>

\* The call has returned or raised.
Finished(l) == l.op = "idle" \/ l.raised \/ l.pc > Len(Steps(l.kind, l.op))
NextStep(l) == Steps(l.kind, l.op)[l.pc]

\* What the statements of a followed save() or delete() leave alone.
shopVars == <<cache, carts, cartItems, prod, stock, orders, catalogVars, laterVars>>

\* instance.save() is called
BeginSave(kind) ==
    /\ Finished(life)
    /\ life.kind \in {"none", kind}
    /\ life' = [life EXCEPT !.kind = kind, !.op = "save", !.pc = 1, !.wrote = FALSE,
                            !.invalidated = FALSE, !.raised = FALSE]
    /\ last' = Ret("begin_save", 0, kind, TRUE)
    /\ UNCHANGED shopVars

\* instance.delete() is called on an instance that is in the Store
BeginDelete(kind) ==
    /\ Finished(life)
    /\ life.kind = kind
    /\ life.exists
    /\ life' = [life EXCEPT !.op = "delete", !.pc = 1, !.wrote = FALSE,
                            !.invalidated = FALSE, !.raised = FALSE]
    /\ last' = Ret("begin_delete", 0, kind, TRUE)
    /\ UNCHANGED shopVars

\* super().save() / super().delete()
StepStore ==
    /\ ~Finished(life)
    /\ NextStep(life) = "store"
    /\ life' = [life EXCEPT !.exists = (life.op = "save"), !.wrote = TRUE, !.pc = @ + 1]
    /\ last' = Ret("store", 0, life.kind, TRUE)
    /\ UNCHANGED shopVars

\* the invalidator: cache.delete / cache.delete_many of the entity's keys
StepInvalidate ==
    /\ ~Finished(life)
    /\ NextStep(life) = "invalidate"
    /\ life' = [life EXCEPT !.cached = FALSE, !.invalidated = TRUE, !.pc = @ + 1]
    /\ last' = Ret("invalidate", 0, life.kind, TRUE)
    /\ UNCHANGED shopVars

\* a statement of the method raises and the call ends there
StepRaise ==
    /\ ~Finished(life)
    /\ NextStep(life) = "raise"
    /\ life' = [life EXCEPT !.raised = TRUE]
    /\ last' = Ret("raise", 0, life.kind, FALSE)
    /\ UNCHANGED shopVars

\* A read-through accessor of the entity, called by another request: an instance
\* found in the Store is stored under the entity's key.
ReadEntity ==
    /\ life.kind # "none"
    /\ life.exists
    /\ ~life.cached
    /\ life' = [life EXCEPT !.cached = TRUE]
    /\ last' = Ret("read_entity", 0, life.kind, TRUE)
    /\ UNCHANGED shopVars

NextLifecycle ==
    \/ \E kind \in Kinds : BeginSave(kind)
    \/ \E kind \in Kinds : BeginDelete(kind)
    \/ StepStore
    \/ StepInvalidate
    \/ StepRaise
    \/ ReadEntity

SpecLifecycle == Init /\ [][NextLifecycle]_vars

\* C8: in every save() and delete() of a cacheable entity the keys are deleted only
\* after the Store change of that call has been applied.
C8_InvalidateOnlyAfterStore == life.invalidated => life.wrote

\* C9: a save() or delete() whose Store write succeeded returns normally, for every
\* entity kind.
C9_NoRaiseAfterStoreWrite == life.wrote => ~life.raised

\* ------------------------------------------------------------ shared keys
\* C11: a cache hit returns a payload stored by the same accessor: the cart list
\* finds a serialized cart response under cart_{user_id}, and get_cart_summary
\* finds a Cart it can read the aggregates of.
C11_HitReturnsOwnPayload ==
    /\ last.op = "cart_list" => last.val.kind = "response"
    /\ last.op = "get_cart_summary" => ~last.val.error

\* ------------------------------------------- reads with their Store queries
\* What a read returns, with the number of Store queries it issued, whether its key
\* held a value at the call, and whether the call before it was the same read.
RetQ(op, id, val, ok, q, cached) ==
    [op |-> op, id |-> id, val |-> val, ok |-> ok, queries |-> q, cached |-> cached,
     again |-> last.op = op /\ last.id = id /\ last.ok]

CartReads == {"items_count", "total_quantity", "subtotal", "cart_items"}

ReadKey(op, id) ==
    CASE op = "items_count" -> CartItemsCountKey(id)
      [] op = "total_quantity" -> CartTotalQuantityKey(id)
      [] op = "subtotal" -> CartSubtotalKey(id)
      [] op = "cart_items" -> CartItemsKey(id)

\* Cart.items_count, Cart.total_quantity and Cart.subtotal of an existing cart: one
\* aggregate query when cache.get returned None
ReadCounted(op, c) ==
    /\ c \in carts
    /\ LET r == CASE op = "items_count" -> ItemsCountProp(cache, cartItems, c)
                  [] op = "total_quantity" -> TotalQuantityProp(cache, cartItems, c)
                  [] op = "subtotal" -> SubtotalProp(cache, cartItems, c)
           hit == Hit(cache, ReadKey(op, c))
       IN /\ cache' = r.cache
          /\ last' = RetQ(op, c, r.val, TRUE, IF hit THEN 0 ELSE 1, hit)
    /\ UNCHANGED <<carts, cartItems, prod, stock, orders, catalogVars, otherVars>>

\* CartItemSerializer(items, many=True).data
SerializedItems(ci, u) == {<<p, ci[u][p]>> : p \in {x \in Products : ci[u][x] > 0}}

\* CartViewSet.items: "if cached_data:" returns the cached list; otherwise the cart
\* is fetched (Cart.DoesNotExist: an empty list, nothing stored), its items are
\* queried, serialized and stored under cart_items_{user.id}
CartItemsView(u) ==
    /\ LET k == CartItemsKey(u)
           hit == Hit(cache, k)
           data == SerializedItems(cartItems, u)
       IN IF hit /\ Value(cache, k) # {}
          THEN /\ last' = RetQ("cart_items", u, Value(cache, k), TRUE, 0, hit)
               /\ UNCHANGED cache
          ELSE IF u \notin carts
          THEN /\ last' = RetQ("cart_items", u, {}, FALSE, 1, hit)
               /\ UNCHANGED cache
          ELSE /\ cache' = CacheSet(cache, k, data)
               /\ last' = RetQ("cart_items", u, data, TRUE, 2, hit)
    /\ UNCHANGED <<carts, cartItems, prod, stock, orders, catalogVars, otherVars>>

\* CartViewSet.add_item: 400 on insufficient stock; else get_or_create, cart.add_item
\* and the deletion of cart_{user.id} and cart_items_{user.id}
ViewAddItem(u, p, q) ==
    /\ prod[p].exists
    /\ cartItems[u][p] + q <= MaxQty
    /\ IF stock[p] < q
       THEN /\ last' = Ret("view_add_item", u, 400, FALSE)
            /\ UNCHANGED <<carts, cartItems, cache>>
       ELSE /\ carts' = carts \cup {u}
            /\ cartItems' = [cartItems EXCEPT ![u][p] = @ + q]
            /\ cache' = CacheDeleteMany(CartInvalidate(cache, u), {CartKey(u), CartItemsKey(u)})
            /\ last' = Ret("view_add_item", u, 201, TRUE)
    /\ UNCHANGED <<prod, stock, orders, catalogVars, otherVars>>

\* CartViewSet.clear: 404 without a cart; else cart.clear() and the same deletions
ViewClear(u) ==
    /\ IF u \notin carts
       THEN /\ last' = Ret("view_clear", u, 404, FALSE)
            /\ UNCHANGED <<cartItems, cache>>
       ELSE /\ cartItems' = [cartItems EXCEPT ![u] = [p \in Products |-> 0]]
            /\ cache' = CacheDeleteMany(CartInvalidate(cache, u), {CartKey(u), CartItemsKey(u)})
            /\ last' = Ret("view_clear", u, 200, TRUE)
    /\ UNCHANGED <<carts, prod, stock, orders, catalogVars, otherVars>>

NextCartReads ==
    \/ \E u \in Users : CreateCart(u)
    \/ \E u \in Users : CartItemsView(u)
    \/ \E u \in Users, op \in CartReads \ {"cart_items"} : ReadCounted(op, u)
    \/ \E u \in Users, p \in Products, q \in 1..MaxQty : ViewAddItem(u, p, q)
    \/ \E u \in Users : ViewClear(u)

SpecCartReads == Init /\ [][NextCartReads]_vars

\* C12: for every read-through accessor and existing entity, the first read after
\* an invalidation queries the Store and populates the key, and the identical read
\* that follows it at once is served from the cache with zero Store queries.
C12_SecondReadFromCache ==
    last.op \in CartReads /\ last.ok =>
        /\ ~last.cached => last.queries > 0 /\ Hit(cache, ReadKey(last.op, last.id))
        /\ last.again => last.queries = 0

\* C13: a stored result is a hit for the next read of a cart's count, total
\* quantity, subtotal or item list, the empty result (0, empty list) included: the
\* read then issues no Store query.
C13_EmptyResultIsAHit ==
    last.op \in CartReads /\ last.cached => last.queries = 0

\* ------------------------------------------------------------- wishlist
\* invalidate_wishlist_cache(user_id)
InvalidateWishlistCache(ch, u) == CacheDeleteMany(ch, WishlistKeys(u))

WishlistObject(u) == [kind |-> "Wishlist", user |-> u]

\* get_cached_wishlist: the cached instance; else Wishlist.objects.get(user_id=...),
\* stored and returned; None, with nothing stored, on Wishlist.DoesNotExist
GetCachedWishlist(u) ==
    /\ IF Hit(cache, WishlistKey(u))
       THEN /\ last' = Ret("get_cached_wishlist", u, Value(cache, WishlistKey(u)), TRUE)
            /\ UNCHANGED cache
       ELSE IF wish[u].exists
       THEN /\ cache' = CacheSet(cache, WishlistKey(u), WishlistObject(u))
            /\ last' = Ret("get_cached_wishlist", u, WishlistObject(u), TRUE)
       ELSE /\ last' = Ret("get_cached_wishlist", u, "None", FALSE)
            /\ UNCHANGED cache
    /\ UNCHANGED <<wish, exceptWish>>

\* get_cached_wishlist_count: the cached count when it is not None; else
\* wishlist.items.count(), stored; 0, with nothing stored, without a wishlist
GetCachedWishlistCount(u) ==
    /\ IF Hit(cache, WishlistCountKey(u))
       THEN /\ last' = Ret("get_cached_wishlist_count", u, Value(cache, WishlistCountKey(u)), TRUE)
            /\ UNCHANGED cache
       ELSE IF wish[u].exists
       THEN /\ cache' = CacheSet(cache, WishlistCountKey(u), Cardinality(wish[u].items))
            /\ last' = Ret("get_cached_wishlist_count", u, Cardinality(wish[u].items), TRUE)
       ELSE /\ last' = Ret("get_cached_wishlist_count", u, 0, FALSE)
            /\ UNCHANGED cache
    /\ UNCHANGED <<wish, exceptWish>>

\* add_to_wishlist_with_cache: Product.DoesNotExist is reported; else get_or_create
\* of the wishlist, nothing more when the product is in it, else the item is
\* created, the wishlist saved and its keys deleted (the post_save handlers of
\* Wishlist and WishlistItem delete the same keys)
AddToWishlist(u, p) ==
    /\ IF ~prod[p].exists
       THEN /\ last' = Ret("add_to_wishlist", u, "Product not found", FALSE)
            /\ UNCHANGED <<wish, cache>>
       ELSE IF wish[u].exists /\ p \in wish[u].items
       THEN /\ last' = Ret("add_to_wishlist", u, "Product already in wishlist", TRUE)
            /\ UNCHANGED <<wish, cache>>
       ELSE /\ wish' = [wish EXCEPT ![u] = [exists |-> TRUE, items |-> @.items \cup {p}]]
            /\ cache' = InvalidateWishlistCache(cache, u)
            /\ last' = Ret("add_to_wishlist", u, "Product added to wishlist", TRUE)
    /\ UNCHANGED exceptWish

\* clear_wishlist_with_cache
ClearWishlist(u) ==
    /\ IF ~wish[u].exists
       THEN /\ last' = Ret("clear_wishlist", u, "Wishlist not found", FALSE)
            /\ UNCHANGED <<wish, cache>>
       ELSE /\ wish' = [wish EXCEPT ![u].items = {}]
            /\ cache' = InvalidateWishlistCache(cache, u)
            /\ last' = Ret("clear_wishlist", u, "items removed from wishlist", TRUE)
    /\ UNCHANGED exceptWish

NextWishlist ==
    \/ \E u \in Users : GetCachedWishlist(u)
    \/ \E u \in Users : GetCachedWishlistCount(u)
    \/ \E u \in Users, p \in Products : AddToWishlist(u, p)
    \/ \E u \in Users : ClearWishlist(u)

SpecWishlist == Init /\ [][NextWishlist]_vars

\* C18: get_cached_wishlist(user_id) for a user without a wishlist creates the
\* wishlist and returns it; it does not return None.
C18_GetCachedWishlistCreates ==
    last.op = "get_cached_wishlist" => last.ok /\ wish[last.id].exists

\* ----------------------------------------- calls during a backend failure
\* The backend that is down during one call: every cache call of the handler raises
\* ("cache"), or every query of the Store does ("store").
Faults == {"cache", "store"}

\* What a call made during a failure returns.  inside: the failure that a statement
\* of the handler met ("none" when the handler never called the failing backend);
\* reaches: what the caller got, the exception itself, a result that reports an
\* error, or nothing of the failure.
Outcome(op, id, inside, reaches, result) ==
    Ret(op, id, [inside |-> inside, reaches |-> reaches, result |-> result],
        reaches = "nothing")

FailingOps ==
    {"failing:items_count", "failing:add_item", "failing:get_cart_summary",
     "failing:add_to_cart"}

\* Cart.items_count: cache.get, and on a miss the count query, with no try around
\* either
ItemsCountFailing(c, fault) ==
    /\ c \in carts
    /\ last' =
         IF fault = "cache"
         THEN Outcome("failing:items_count", c, "cache", "exception", "cache.get")
         ELSE IF Hit(cache, CartItemsCountKey(c))
         THEN Outcome("failing:items_count", c, "none", "nothing",
                      Value(cache, CartItemsCountKey(c)))
         ELSE Outcome("failing:items_count", c, "store", "exception", "items.count()")
    /\ UNCHANGED <<cache, carts, cartItems, prod, stock, orders, catalogVars, otherVars>>

\* Cart.add_item: the CartItem row and the cart are saved, then _invalidate_cache
\* calls cache.delete_many, with no try around it
AddItemFailing(c, p, q, fault) ==
    /\ c \in carts
    /\ prod[p].exists
    /\ cartItems[c][p] + q <= MaxQty
    /\ IF fault = "cache"
       THEN /\ cartItems' = [cartItems EXCEPT ![c][p] = @ + q]
            /\ last' = Outcome("failing:add_item", c, "cache", "exception", "cache.delete_many")
       ELSE /\ last' = Outcome("failing:add_item", c, "store", "exception", "get_or_create")
            /\ UNCHANGED cartItems
    /\ UNCHANGED <<cache, carts, prod, stock, orders, catalogVars, otherVars>>

\* get_cart_summary: everything runs inside try ... except Exception, which returns
\* the zero summary with 'error'.  With the Store down the call succeeds only when
\* the cart and its three aggregates are all cached.
GetCartSummaryFailing(u, fault) ==
    /\ LET k == CartKey(u)
           cached == Hit(cache, k) /\ Value(cache, k).kind = "Cart"
                     /\ \A a \in CartAggregateKeys(u) : Hit(cache, a)
           zeros == SummaryDict(0, 0, 0, TRUE)
       IN last' =
            IF fault = "cache"
            THEN Outcome("failing:get_cart_summary", u, "cache", "error result", zeros)
            ELSE IF cached
            THEN Outcome("failing:get_cart_summary", u, "none", "nothing",
                         SummaryOf(cache, cartItems, u).val)
            ELSE IF Hit(cache, k) /\ Value(cache, k).kind # "Cart"
            THEN Outcome("failing:get_cart_summary", u, "none", "error result", zeros)
            ELSE Outcome("failing:get_cart_summary", u, "store", "error result", zeros)
    /\ UNCHANGED <<cache, carts, cartItems, prod, stock, orders, catalogVars, otherVars>>

\* add_to_cart: Product.objects.get, the stock check, get_or_create of the cart,
\* cart.add_item and the two invalidators, inside try ... except Exception, which
\* returns {'success': False, 'message': ...}
AddToCartFailing(u, p, q, fault) ==
    /\ cartItems[u][p] + q <= MaxQty
    /\ IF fault = "store"
       THEN /\ last' = Outcome("failing:add_to_cart", u, "store", "error result",
                               "Error adding product to cart")
            /\ UNCHANGED <<carts, cartItems>>
       ELSE IF ~prod[p].exists \/ stock[p] < q
       THEN /\ last' = Outcome("failing:add_to_cart", u, "none", "nothing",
                               IF prod[p].exists THEN "Insufficient stock"
                               ELSE "Product not found")
            /\ UNCHANGED <<carts, cartItems>>
       ELSE /\ carts' = carts \cup {u}
            /\ cartItems' = [cartItems EXCEPT ![u][p] = @ + q]
            /\ last' = Outcome("failing:add_to_cart", u, "cache", "error result",
                               "Error adding product to cart")
    /\ UNCHANGED <<cache, prod, stock, orders, catalogVars, otherVars>>

NextFaults ==
    \/ \E u \in Users : CreateCart(u)
    \/ \E c \in Users, p \in Products, q \in 1..MaxQty : AddItem(c, p, q)
    \/ \E c \in Users : ReadItemsCount(c)
    \/ \E u \in Users : GetCartSummary(u)
    \/ \E c \in Users, f \in Faults : ItemsCountFailing(c, f)
    \/ \E c \in Users, p \in Products, q \in 1..MaxQty, f \in Faults :
          AddItemFailing(c, p, q, f)
    \/ \E u \in Users, f \in Faults : GetCartSummaryFailing(u, f)
    \/ \E u \in Users, p \in Products, q \in 1..MaxQty, f \in Faults :
          AddToCartFailing(u, p, q, f)

SpecFaults == Init /\ [][NextFaults]_vars

\* C14: a cache get, set or delete that fails is never surfaced to the caller: the
\* read returns the Store's value and the write completes.
C14_CacheFailureNotSurfaced ==
    last.op \in FailingOps /\ last.val.inside = "cache" => last.val.reaches = "nothing"

\* C15: a Store error raised during a cache-aware read or write reaches the caller
\* unchanged, never as a normal-looking result.
C15_StoreErrorReachesCaller ==
    last.op \in FailingOps /\ last.val.inside = "store" => last.val.reaches = "exception"

\* ------------------------------------------------------ not-found lookups
\* C16: a lookup of an entity that is not in the Store returns not-found and
\* leaves nothing under its key, so that the next lookup queries the Store again.
C16_NotFoundStoresNothing ==
    /\ (last.op = "get_product_by_slug" /\ ~prod[last.id].exists) =>
           last.val = {} /\ ~Hit(cache, ProductBySlugKey(last.id))
    /\ (last.op = "get_product_by_sku" /\ ~prod[last.id].exists) =>
           last.val = {} /\ ~Hit(cache, ProductBySkuKey(last.id))
    /\ (last.op = "get_cached_wishlist" /\ ~wish[last.id].exists) =>
           last.val = "None" /\ ~Hit(cache, WishlistKey(last.id))

\* ------------------------------------------------------- entries with a TTL
\* SendOTPView.post: cache.set(cache_key, otp, 600)
OtpTimeout == 600
\* cache.set(key, value, timeout) at time now
TimedSet(value, timeout, now) == {[value |-> value, setAt |-> now, timeout |-> timeout]}
\* cache.get(key) at time now: the value of an entry whose timeout has not elapsed
TimedGet(entry, now) ==
    {e.value : e \in {x \in entry : now < x.setAt + x.timeout}}

\* time passes
Tick ==
    /\ clock + TickStep <= MaxTime
    /\ clock' = clock + TickStep
    /\ last' = Ret("tick", 0, clock + TickStep, TRUE)
    /\ UNCHANGED <<otps, accounts, exceptOtp>>

\* the same view storing the code for Django's default timeout of 300 seconds
SendOTPDefaultTimeout(i, code) ==
    /\ otps' = [otps EXCEPT ![i] = TimedSet(code, 300, clock)]
    /\ last' = Ret("send_otp", i, code, TRUE)
    /\ UNCHANGED <<clock, accounts, exceptOtp>>

\* SendOTPView.post with an identifier: a code is drawn and stored for 600 seconds
SendOTP(i, code) ==
    /\ otps' = [otps EXCEPT ![i] = TimedSet(code, OtpTimeout, clock)]
    /\ last' = Ret("send_otp", i, code, TRUE)
    /\ UNCHANGED <<clock, accounts, exceptOtp>>

\* VerifyOTPView.post with an identifier and a code: 400 when cache.get finds
\* nothing or another code; else the entry is deleted and the user fetched or
\* created.  val: the answer, the entry under the key at the call, and the time.
VerifyOTP(i, code) ==
    /\ LET cached == TimedGet(otps[i], clock)
           answer == IF cached = {} THEN "OTP expired or not sent"
                     ELSE IF cached # {code} THEN "Invalid OTP"
                     ELSE "OTP verified successfully"
       IN /\ last' = Ret("verify_otp", i,
                         [answer |-> answer, entry |-> otps[i], at |-> clock],
                         answer = "OTP verified successfully")
          /\ IF answer = "OTP verified successfully"
             THEN /\ otps' = [otps EXCEPT ![i] = {}]
                  /\ accounts' = accounts \cup {i}
             ELSE UNCHANGED <<otps, accounts>>
    /\ UNCHANGED <<clock, exceptOtp>>

NextOtp ==
    \/ Tick
    \/ \E i \in Identifiers, code \in Otps : SendOTP(i, code)
    \/ \E i \in Identifiers, code \in Otps : VerifyOTP(i, code)

SpecOtp == Init /\ [][NextOtp]_vars

RaceCart == 1

\* Cart.subtotal, first statement: cache.get; a value that is not None is returned
ReaderGet ==
    /\ RaceCart \in carts
    /\ race.rpc = "idle"
    /\ IF Hit(cache, CartSubtotalKey(RaceCart))
       THEN /\ last' = Ret("subtotal", RaceCart,
                           [value |-> Value(cache, CartSubtotalKey(RaceCart)),
                            hit |-> TRUE], TRUE)
            /\ UNCHANGED race
       ELSE /\ race' = [race EXCEPT !.rpc = "missed"]
            /\ UNCHANGED last
    /\ UNCHANGED <<cache, cartItems, exceptCart>>

\* Cart.subtotal, the aggregate query
ReaderQuery ==
    /\ race.rpc = "missed"
    /\ race' = [race EXCEPT !.rpc = "queried", !.rval = DbSubtotal(cartItems, RaceCart)]
    /\ UNCHANGED <<cache, cartItems, last, exceptCart>>

\* Cart.subtotal, cache.set and return.  stale: the value installed, when it is not
\* the Store's and no write is in progress to delete it.
ReaderSet ==
    /\ race.rpc = "queried"
    /\ cache' = CacheSet(cache, CartSubtotalKey(RaceCart), race.rval)
    /\ race' = [race EXCEPT !.rpc = "idle",
                            !.stale = IF race.rval # DbSubtotal(cartItems, RaceCart)
                                         /\ race.wpc = "idle"
                                      THEN {race.rval} ELSE {}]
    /\ last' = Ret("subtotal", RaceCart, [value |-> race.rval, hit |-> FALSE], TRUE)
    /\ UNCHANGED <<cartItems, exceptCart>>

\* Cart.add_item and Cart.update_item_quantity up to self.save(): the CartItem row
\* is written (update_item_quantity returns None, with nothing written, when the
\* product is not in the cart)
WriterWrite(op, p, q) ==
    /\ RaceCart \in carts
    /\ race.wpc = "idle"
    /\ prod[p].exists
    /\ IF op = "add_item"
       THEN /\ cartItems[RaceCart][p] + q <= MaxQty
            /\ cartItems' = [cartItems EXCEPT ![RaceCart][p] = @ + q]
            /\ race' = [race EXCEPT !.wpc = "wrote"]
       ELSE IF cartItems[RaceCart][p] > 0
       THEN /\ cartItems' = [cartItems EXCEPT ![RaceCart][p] = q]
            /\ race' = [race EXCEPT !.wpc = "wrote"]
       ELSE UNCHANGED <<cartItems, race>>
    /\ last' = Ret(op, RaceCart, p, cartItems' # cartItems)
    /\ UNCHANGED <<cache, exceptCart>>

WriterInvalidateKeepsSubtotal ==
    /\ race.wpc = "wrote"
    /\ cache' = CartInvalidateDropsSubtotal(cache, RaceCart)
    /\ race' = [race EXCEPT !.wpc = "idle", !.stale = {}]
    /\ UNCHANGED <<cartItems, last, exceptCart>>

\* the last statement of both methods: self._invalidate_cache()
WriterInvalidate ==
    /\ race.wpc = "wrote"
    /\ cache' = CartInvalidate(cache, RaceCart)
    /\ race' = [race EXCEPT !.wpc = "idle", !.stale = {}]
    /\ UNCHANGED <<cartItems, last, exceptCart>>

\* the 15 minutes of the subtotal's entry have passed
ExpireSubtotal ==
    /\ Hit(cache, CartSubtotalKey(RaceCart))
    /\ cache' = CacheDeleteMany(cache, {CartSubtotalKey(RaceCart)})
    /\ race' = [race EXCEPT !.stale = {}]
    /\ last' = Ret("expire", RaceCart, 0, TRUE)
    /\ UNCHANGED <<cartItems, exceptCart>>

NextRace ==
    \/ CreateCart(RaceCart)
    \/ ReaderGet
    \/ ReaderQuery
    \/ ReaderSet
    \/ \E op \in {"add_item", "update_item_quantity"}, p \in Products, q \in 1..MaxQty :
          WriterWrite(op, p, q)
    \/ WriterInvalidate
    \/ ExpireSubtotal

SpecRace == Init /\ [][NextRace]_vars

\* C19: a reader running with a writer of the same key can install the value it
\* read before the write after the writer's invalidation; the stale value then stays
\* under the key and is what reads return until the entry expires or another write
\* deletes it.  Without such an install, and with no call in progress, the cached
\* subtotal is the Store's.
C19_StaleUntilExpiryOrWrite ==
    /\ race.stale # {} =>
          /\ cache[CartSubtotalKey(RaceCart)] = race.stale
          /\ last.op = "subtotal" => {last.val.value} = race.stale
    /\ (race.stale = {} /\ race.rpc = "idle" /\ race.wpc = "idle"
        /\ Hit(cache, CartSubtotalKey(RaceCart))) =>
          Value(cache, CartSubtotalKey(RaceCart)) = DbSubtotal(cartItems, RaceCart)

\* A read served the value that a reader installed after the writer's invalidation,
\* and the Store holds another.
C19_Witness ==
    /\ last.op = "subtotal"
    /\ last.val.hit
    /\ race.stale = {last.val.value}
    /\ race.wpc = "idle"
    /\ last.val.value # DbSubtotal(cartItems, RaceCart)

\* ------------------------------------------- the creation of an order
\* OrderCreateSerializer.create, first statement: Order.objects.create, whose save()
\* deletes the order's and the user's keys
BeginCreate(u, items) ==
    /\ making.pc = "idle"
    /\ Len(orders) < MaxOrders
    /\ orders' = Append(orders, [user |-> u, status |-> "pending", items |-> <<>>])
    /\ cache' = OrderSaveInvalidate(cache, Len(orders) + 1, u)
    /\ making' = [pc |-> "items", id |-> Len(orders) + 1, todo |-> items]
    /\ last' = Ret("order_row", Len(orders) + 1, 0, TRUE)
    /\ UNCHANGED exceptCreate

\* one turn of its loop: OrderItem.objects.create(order=order, **item_data);
\* OrderItem.save deletes no key
CreateItem ==
    /\ making.pc = "items"
    /\ making.todo # <<>>
    /\ orders' = [orders EXCEPT ![making.id].items = Append(@, Head(making.todo))]
    /\ making' = [making EXCEPT !.todo = Tail(@)]
    /\ last' = Ret("order_item", making.id, Head(making.todo), TRUE)
    /\ UNCHANGED <<cache, exceptCreate>>

\* return order
ReturnCreate ==
    /\ making.pc = "items"
    /\ making.todo = <<>>
    /\ making' = [making EXCEPT !.pc = "returned"]
    /\ last' = Ret("create", making.id, orders[making.id].items, TRUE)
    /\ UNCHANGED <<cache, orders, exceptCreate>>

NextCreate ==
    \/ \E u \in Buyers, items \in CheckoutItems : BeginCreate(u, items)
    \/ CreateItem
    \/ ReturnCreate
    \/ \E u \in Users : OrderList(u)

SpecCreate == Init /\ [][NextCreate]_vars

\* C20: once OrderCreateSerializer.create has returned, what is cached under
\* order_items_{order_id} holds all of the order's OrderItems, also when the order
\* was read between the creation of its row and the creation of its items.
C20_CachedItemsComplete ==
    (making.pc = "returned" /\ Hit(cache, OrderItemsKey(making.id))) =>
        Value(cache, OrderItemsKey(making.id)) = orders[making.id].items

\* C21: a step that creates an Order or changes its status leaves no cached order
\* list of a user who sees that order: neither the owner's user_orders_{user_id}
\* nor that of a staff member.
C21_ListsOfAllViewersInvalidated ==
    [][\A u \in Users : \A o \in VisibleOrders(orders', u) :
          (o \notin DOMAIN orders \/ orders'[o].status # orders[o].status) =>
              ~Hit(cache', UserOrdersKey(u))]_vars

\* ------------------------------------------- who is served an order's detail
\* request.user of a request without credentials (AnonymousUser: not authenticated,
\* not staff, owner of no order)
Anonymous == 0

\* OrderViewSet.retrieve for requester u.  IsOwnerOrStaff.has_permission lets every
\* retrieve through; has_object_permission runs inside get_object, which the view
\* reaches only on a miss.
RetrieveBy(u, o) ==
    /\ LET r == RetrieveOf(cache, orders, u, o)
       IN /\ cache' = r.cache
          /\ last' = Ret("retrieve_by", o, [by |-> u, code |-> r.code, payload |-> r.val],
                         r.code = 200)
    /\ UNCHANGED <<carts, cartItems, prod, stock, orders, catalogVars, otherVars>>

NextDetail ==
    \/ \E u \in Buyers, items \in CheckoutItems : Checkout(u, items)
    \/ \E u \in Users \cup {Anonymous}, o \in OrderIds : RetrieveBy(u, o)
    \/ \E u \in Users, o \in OrderIds, s \in Statuses : UpdateStatus(u, o, s)

SpecDetail == Init /\ [][NextDetail]_vars

\* C22: a retrieve that answers 200 with an order's data was made by the order's
\* owner or by a staff user, whether the payload came from the cache or the Store.
C22_DetailOnlyToOwnerOrStaff ==
    (last.op = "retrieve_by" /\ last.ok) =>
        \/ last.val.by \in Staff
        \/ orders[last.id].user = last.val.by

\* ------------------------------------------- checkout requests, step by step
\* The product that the concurrent checkouts order, each with one line.
SoldProduct == 1

\* OrderViewSet.checkout, the validation loop: Product.objects.get and the
\* comparison of stock_quantity with the requested quantity (400 when it is lower)
CheckoutValidate(i, q) ==
    /\ co[i].pc = "idle"
    /\ Len(orders) <= MaxOrders
    /\ IF stock[SoldProduct] < q
       THEN /\ last' = Ret("checkout_step", i, 400, FALSE)
            /\ UNCHANGED co
       ELSE /\ co' = [co EXCEPT ![i] = [pc |-> "validated", qty |-> q, seen |-> 0,
                                        order |-> 0]]
            /\ last' = Ret("checkout_step", i, "validated", TRUE)
    /\ UNCHANGED <<cache, cartItems, stock, orders, exceptCheckout>>

\* order_serializer.save(user=request.user): the Order row and its OrderItem
CheckoutCreate(i, u) ==
    /\ co[i].pc = "validated"
    /\ Len(orders) <= MaxOrders
    /\ orders' = Append(orders, [user |-> u, status |-> "pending",
                                 items |-> <<<<SoldProduct, co[i].qty>>>>])
    /\ cache' = OrderSaveInvalidate(cache, Len(orders) + 1, u)
    /\ co' = [co EXCEPT ![i].pc = "created", ![i].order = Len(orders) + 1]
    /\ last' = Ret("checkout_step", i, "created", TRUE)
    /\ UNCHANGED <<cartItems, stock, exceptCheckout>>

\* the stock loop, product = Product.objects.get(id=...): the row as it is now
CheckoutReadStock(i) ==
    /\ co[i].pc = "created"
    /\ co' = [co EXCEPT ![i].pc = "read", ![i].seen = stock[SoldProduct]]
    /\ last' = Ret("checkout_step", i, "read", TRUE)
    /\ UNCHANGED <<cache, cartItems, stock, orders, exceptCheckout>>

\* product.stock_quantity -= quantity; product.save(): the UPDATE writes the value
\* computed from the row that was read (IntegrityError when it is negative); then
\* the rest of the view for the order's user
CheckoutSaveStock(i) ==
    /\ co[i].pc = "read"
    /\ LET u == orders[co[i].order].user
           ch == InvalidateUserOrdersCache(InvalidateProductCache(cache, SoldProduct), u)
       IN IF co[i].seen - co[i].qty < 0
          THEN /\ last' = Ret("checkout_step", i, 500, FALSE)
               /\ UNCHANGED <<cache, cartItems, stock>>
          ELSE /\ stock' = [stock EXCEPT ![SoldProduct] = co[i].seen - co[i].qty]
               /\ last' = Ret("checkout_step", i, 201, TRUE)
               /\ IF u \in carts
                  THEN /\ cartItems' = [cartItems EXCEPT ![u][SoldProduct] = 0]
                       /\ cache' = CheckoutCartInvalidate(ch, u)
                  ELSE /\ cache' = ch
                       /\ UNCHANGED cartItems
    /\ co' = [co EXCEPT ![i].pc = "idle"]
    /\ UNCHANGED <<orders, exceptCheckout>>

NextCheckouts ==
    \/ \E i \in Requests, q \in 1..MaxQty : CheckoutValidate(i, q)
    \/ \E i \in Requests, u \in Buyers : CheckoutCreate(i, u)
    \/ \E i \in Requests : CheckoutReadStock(i)
    \/ \E i \in Requests : CheckoutSaveStock(i)
    \/ \E u \in Users : OrderList(u)

SpecCheckouts == Init /\ [][NextCheckouts]_vars

\* The quantity of product p over the lines of all orders
RECURSIVE Ordered(_, _, _)
Ordered(ords, p, o) ==
    IF o = 0 THEN 0
    ELSE Ordered(ords, p, o - 1)
         + SumOver(DOMAIN ords[o].items,
                   [k \in DOMAIN ords[o].items |->
                       IF ords[o].items[k][1] = p THEN ords[o].items[k][2] ELSE 0])

\* C23: whatever the interleaving of the checkout requests, the quantity of a
\* product over all created orders is at most the stock the product had before
\* them, and every unit ordered by a finished checkout is taken off the stock.
C23_NoOversell ==
    /\ Ordered(orders, SoldProduct, Len(orders)) <= MaxStock
    /\ (\A i \in Requests : co[i].pc = "idle") =>
           stock[SoldProduct] = MaxStock - Ordered(orders, SoldProduct, Len(orders))

\* ------------------------------------------------------------------ payments
\* Order.total_amount as checkout computes it: the subtotal, 8% tax rounded half
\* up, and the fixed shipping cost of 10.00
OrderTotal(order) ==
    LET subtotal == SumOver(DOMAIN order.items,
                            [k \in DOMAIN order.items |->
                                Price(order.items[k][1]) * order.items[k][2]])
    IN subtotal + (subtotal * 8 + 50) \div 100 + 1000

\* The Transaction instance that get_cached_transaction returns and stores
TransactionObject(tx, t) == [id |-> t] @@ tx[t]

\* get_cached_transaction: the cached instance, or the row, which is then stored;
\* None (the empty set) is not stored
GetCachedTransaction(ch, tx, t) ==
    IF Hit(ch, TransactionKey(t)) THEN [cache |-> ch, val |-> {Value(ch, TransactionKey(t))}]
    ELSE IF t \notin DOMAIN tx THEN [cache |-> ch, val |-> {}]
    ELSE [cache |-> CacheSet(ch, TransactionKey(t), TransactionObject(tx, t)),
          val |-> {TransactionObject(tx, t)}]

\* What transaction.save() writes: every column of the instance
RowOf(inst, status) ==
    [order |-> inst.order, user |-> inst.user, status |-> status, amount |-> inst.amount]

\* CreatePaymentIntentView.post for a configured, active gateway: 404 for an order
\* that is not the requester's, 400 for a paid order, else a PENDING Transaction
\* (Transaction.save deletes transaction_{id}; user_transactions_{user_id}, which
\* no action here fills, is deleted too)
CreatePaymentIntent(u, o) ==
    /\ Len(txns) < MaxTxns
    /\ IF o \notin DOMAIN orders \/ orders[o].user # u
       THEN /\ last' = Ret("create_intent", o, 404, FALSE)
            /\ UNCHANGED <<cache, txns>>
       ELSE IF o \in paid
       THEN /\ last' = Ret("create_intent", o, 400, FALSE)
            /\ UNCHANGED <<cache, txns>>
       ELSE /\ txns' = Append(txns, [order |-> o, user |-> u, status |-> "pending",
                                     amount |-> OrderTotal(orders[o])])
            /\ cache' = CacheDeleteMany(cache, {TransactionKey(Len(txns) + 1)})
            /\ last' = Ret("create_intent", o, 201, TRUE)
    /\ UNCHANGED <<orders, refunds, paid, pays, exceptPayment>>

\* ProcessPaymentView.post up to the gateway call: get_cached_transaction, 404 for
\* no transaction or another user's, 400 for one that is not PENDING
ProcessFetch(i, u, t) ==
    /\ pays[i].pc = "idle"
    /\ LET r == GetCachedTransaction(cache, txns, t)
       IN /\ cache' = r.cache
          /\ IF r.val = {} \/ (\E x \in r.val : x.user # u)
             THEN /\ last' = Ret("process_payment", t, 404, FALSE)
                  /\ UNCHANGED pays
             ELSE IF \E x \in r.val : x.status # "pending"
             THEN /\ last' = Ret("process_payment", t, 400, FALSE)
                  /\ UNCHANGED pays
             ELSE /\ pays' = [pays EXCEPT ![i] =
                                 [pc |-> "processing", txn |-> t,
                                  inst |-> CHOOSE x \in r.val : TRUE, amount |-> 0]]
                  /\ last' = Ret("process_payment", t, 0, TRUE)
    /\ UNCHANGED <<orders, txns, refunds, paid, exceptPayment>>

\* ProcessPaymentView.post after process_payment_gateway, which returns True for
\* every gateway: the transaction is saved as SUCCESS, the order as paid and
\* confirmed, and the transaction's key is deleted
ProcessComplete(i) ==
    /\ pays[i].pc = "processing"
    /\ LET t == pays[i].txn
           o == pays[i].inst.order
       IN /\ txns' = [txns EXCEPT ![t] = RowOf(pays[i].inst, "success")]
          /\ paid' = paid \cup {o}
          /\ orders' = [orders EXCEPT ![o].status = "confirmed"]
          /\ cache' = OrderSaveInvalidate(CacheDeleteMany(cache, {TransactionKey(t)}),
                                          o, orders[o].user)
          /\ last' = Ret("process_payment", t, 200, TRUE)
    /\ pays' = [pays EXCEPT ![i].pc = "idle"]
    /\ UNCHANGED <<refunds, exceptPayment>>

\* The amounts a refund request carries: none (0), a part, or more than any order's
\* total
RefundAmounts == {0, 10, 100000}

\* RefundTransactionView.post up to the atomic block: get_cached_transaction, 404,
\* 400 for a transaction that is not SUCCESS or an amount above the transaction's
RefundFetch(i, u, t, amount) ==
    /\ pays[i].pc = "idle"
    /\ Len(refunds) < MaxRefunds
    /\ LET r == GetCachedTransaction(cache, txns, t)
       IN /\ cache' = r.cache
          /\ IF r.val = {} \/ (\E x \in r.val : x.user # u)
             THEN /\ last' = Ret("refund", t, 404, FALSE)
                  /\ UNCHANGED pays
             ELSE IF \E x \in r.val : x.status # "success" \/ amount > x.amount
             THEN /\ last' = Ret("refund", t, 400, FALSE)
                  /\ UNCHANGED pays
             ELSE LET x == CHOOSE y \in r.val : TRUE
                  IN /\ pays' = [pays EXCEPT ![i] =
                                    [pc |-> "refunding", txn |-> t, inst |-> x,
                                     amount |-> IF amount = 0 THEN x.amount ELSE amount]]
                     /\ last' = Ret("refund", t, 0, TRUE)
    /\ UNCHANGED <<orders, txns, refunds, paid, exceptPayment>>

\* RefundTransactionView.post, the atomic block: the Refund row, the transaction
\* saved as REFUNDED, the order saved as refunded when no transaction of it is left
\* in another status, and the deletes of transaction_{id} (refund_{id} and
\* user_transactions_{user_id}, which no action here fills, are deleted too)
RefundComplete(i) ==
    /\ pays[i].pc = "refunding"
    /\ Len(refunds) < MaxRefunds
    /\ LET t == pays[i].txn
           o == pays[i].inst.order
           tx == [txns EXCEPT ![t] = RowOf(pays[i].inst, "refunded")]
           all == \A k \in DOMAIN tx : tx[k].order = o => tx[k].status = "refunded"
       IN /\ refunds' = Append(refunds, [txn |-> t, amount |-> pays[i].amount])
          /\ txns' = tx
          /\ orders' = IF all THEN [orders EXCEPT ![o].status = "refunded"] ELSE orders
          /\ cache' = IF all
                      THEN OrderSaveInvalidate(CacheDeleteMany(cache, {TransactionKey(t)}),
                                               o, orders[o].user)
                      ELSE CacheDeleteMany(cache, {TransactionKey(t)})
          /\ last' = Ret("refund", t, 201, TRUE)
    /\ pays' = [pays EXCEPT ![i].pc = "idle"]
    /\ UNCHANGED <<paid, exceptPayment>>

NextPayment ==
    \/ \E u \in Buyers, items \in {<<a>> : a \in ItemLines} : Checkout(u, items)
    \/ \E u \in Users, o \in OrderIds : CreatePaymentIntent(u, o)
    \/ \E i \in Requests, u \in Users, t \in 1..(MaxTxns + 1) : ProcessFetch(i, u, t)
    \/ \E i \in Requests : ProcessComplete(i)
    \/ \E i \in Requests, u \in Users, t \in 1..(MaxTxns + 1), a \in RefundAmounts :
          RefundFetch(i, u, t, a)
    \/ \E i \in Requests : RefundComplete(i)

SpecPayment == Init /\ [][NextPayment]_vars

\* C24: of the transactions of one order, at most one is in status SUCCESS.
C24_OneSuccessPerOrder ==
    \A o \in OrderIds :
        Cardinality({t \in DOMAIN txns : txns[t].order = o /\ txns[t].status = "success"}) <= 1

\* C25: the amounts of the refunds of one transaction add up to at most the
\* transaction's amount.
C25_RefundsWithinAmount ==
    \A t \in DOMAIN txns :
        SumOver({k \in DOMAIN refunds : refunds[k].txn = t},
                [k \in DOMAIN refunds |-> refunds[k].amount]) <= txns[t].amount

\* ------------------------------------------- a cancel and a status update
\* OrderViewSet.cancel up to the check: get_object loads the order (404 outside the
\* requester's queryset) and can_be_cancelled is asked of the loaded instance
CancelGetObject(u, o) ==
    /\ cancelling.pc = "idle"
    /\ IF o \notin VisibleOrders(orders, u)
       THEN /\ last' = Ret("cancel_step", o, [code |-> 404, before |-> "none"], FALSE)
            /\ UNCHANGED cancelling
       ELSE IF ~CanBeCancelled(orders[o])
       THEN /\ last' = Ret("cancel_step", o, [code |-> 400, before |-> orders[o].status],
                           FALSE)
            /\ UNCHANGED cancelling
       ELSE /\ cancelling' = [pc |-> "checked", order |-> o, seen |-> orders[o].status]
            /\ last' = Ret("cancel_step", o, [code |-> 0, before |-> orders[o].status],
                           FALSE)
    /\ UNCHANGED <<cache, orders, exceptOrder>>

\* order.update_status(OrderStatus.CANCELLED) on the loaded instance: self.save()
\* writes the status whatever the row holds now.  before: the status in the Store
\* at the moment of the change.
CancelUpdateStatus ==
    /\ cancelling.pc = "checked"
    /\ LET o == cancelling.order
           r == OrderUpdateStatus(cache, orders, o, "cancelled")
       IN /\ cache' = r.cache
          /\ orders' = r.orders
          /\ last' = Ret("cancel_step", o, [code |-> 200, before |-> orders[o].status],
                         TRUE)
    /\ cancelling' = [cancelling EXCEPT !.pc = "idle"]
    /\ UNCHANGED exceptOrder

NextCancel ==
    \/ \E u \in Buyers, items \in {<<a>> : a \in ItemLines} : Checkout(u, items)
    \/ \E u \in Users, o \in OrderIds : CancelGetObject(u, o)
    \/ CancelUpdateStatus
    \/ \E u \in Users, o \in OrderIds, s \in Statuses : UpdateStatus(u, o, s)
    \/ \E u \in Users : OrderList(u)

SpecCancel == Init /\ [][NextCancel]_vars

SendFreshOTP(i, code) ==
    /\ wins = 0
    /\ \A r \in Requests : verifying[r].pc = "idle"
    /\ SendOTP(i, code)

\* VerifyOTPView.post up to the comparison: cache.get, 400 for no entry or
\* another code
VerifyGet(r, i, code) ==
    /\ verifying[r].pc = "idle"
    /\ LET cached == TimedGet(otps[i], clock)
       IN IF cached = {}
          THEN /\ last' = Ret("verify_step", i, "OTP expired or not sent", FALSE)
               /\ UNCHANGED verifying
          ELSE IF cached # {code}
          THEN /\ last' = Ret("verify_step", i, "Invalid OTP", FALSE)
               /\ UNCHANGED verifying
          ELSE /\ verifying' = [verifying EXCEPT ![r] = [pc |-> "valid", id |-> i]]
               /\ last' = Ret("verify_step", i, "valid", FALSE)
    /\ UNCHANGED <<clock, otps, accounts, wins, exceptVerify>>

\* the rest of the view: cache.delete, the user fetched or created, the token, 200
VerifyDelete(r) ==
    /\ verifying[r].pc = "valid"
    /\ otps' = [otps EXCEPT ![verifying[r].id] = {}]
    /\ accounts' = accounts \cup {verifying[r].id}
    /\ wins' = wins + 1
    /\ verifying' = [verifying EXCEPT ![r].pc = "idle"]
    /\ last' = Ret("verify_step", verifying[r].id, "OTP verified successfully", TRUE)
    /\ UNCHANGED <<clock, exceptVerify>>

NextVerify ==
    \/ Tick
    \/ \E i \in Identifiers, code \in Otps : SendFreshOTP(i, code)
    \/ \E r \in Requests, i \in Identifiers, code \in Otps : VerifyGet(r, i, code)
    \/ \E r \in Requests : VerifyDelete(r)

SpecVerify == Init /\ [][NextVerify]_vars

\* C27: an OTP that was sent is verified successfully at most once, whether the
\* requests with it come one after the other or at the same time.
C27_OneVerificationPerOtp == wins <= 1

\* ---------------------------------------------------- pages and their lookups
\* Page.objects.filter(is_active=True).get(...), or None: the set of what it finds
PageFound(pg, matches) == IF matches /\ pg.is_active THEN {pg} ELSE {}

\* get_page_by_slug / get_page_by_type: the cached Page, or the query; a found page
\* is stored, None is not
PageLookup(op, k, id, matches) ==
    /\ IF Hit(cache, k)
       THEN /\ last' = Ret(op, id, {Value(cache, k)}, TRUE)
            /\ UNCHANGED cache
       ELSE LET found == PageFound(page, matches)
            IN /\ cache' = IF found = {} THEN cache ELSE CacheSet(cache, k, page)
               /\ last' = Ret(op, id, found, found # {})
    /\ UNCHANGED <<page, exceptPage>>

GetPageBySlug(s) == PageLookup("get_page_by_slug", PageKey(s), s, page.slug = s)
GetPageByType(t) == PageLookup("get_page_by_type", PageTypeKey(t), t, page.page_type = t)

\* Page.invalidate_cache: active_pages and the keys of the instance's slug and type
PageInvalidateCache(ch, pg) ==
    CacheDeleteMany(ch, {ActivePagesKey, PageKey(pg.slug), PageTypeKey(pg.page_type)})

\* Page.save of the page with new field values: super().save(), then
\* self.invalidate_cache() with the values the instance has now
PageSave(s, t, a) ==
    /\ page' = [slug |-> s, page_type |-> t, is_active |-> a]
    /\ cache' = PageInvalidateCache(cache, page')
    /\ last' = Ret("page_save", s, 0, TRUE)
    /\ UNCHANGED exceptPage

NextPage ==
    \/ \E s \in Slugs : GetPageBySlug(s)
    \/ \E t \in PageTypes : GetPageByType(t)
    \/ \E s \in Slugs, t \in PageTypes, a \in BOOLEAN : PageSave(s, t, a)

SpecPage == Init /\ [][NextPage]_vars

\* C28: a read by a slug or a page type that the page no longer has returns no
\* page.
C28_OldAttributeNotServed ==
    /\ (last.op = "get_page_by_slug" /\ page.slug # last.id) => last.val = {}
    /\ (last.op = "get_page_by_type" /\ page.page_type # last.id) => last.val = {}

\* ----------------------------------------------- the age of what is served
\* The timeout of every cart entry: 60 * 15
CartTimeout == 900

\* A read-through of key k at time now.  The value carries the time at which it was
\* read from the Store.
TimedRead(tc, k, dbv, now) ==
    LET found == TimedGet(tc[k], now)
    IN IF found # {}
       THEN [tc |-> tc, val |-> CHOOSE v \in found : TRUE, cached |-> TRUE]
       ELSE LET v == [data |-> dbv, readAt |-> now]
            IN [tc |-> [tc EXCEPT ![k] = TimedSet(v, CartTimeout, now)], val |-> v,
                cached |-> FALSE]

Earliest(S) == CHOOSE x \in S : \A y \in S : x <= y

\* Cart.items_count, Cart.total_quantity or Cart.subtotal at the current time
TimedProperty(op, c) ==
    /\ c \in carts
    /\ LET dbv == CASE op = "items_count" -> DbItemsCount(cartItems, c)
                    [] op = "total_quantity" -> DbTotalQuantity(cartItems, c)
                    [] op = "subtotal" -> DbSubtotal(cartItems, c)
           r == TimedRead(tcache, ReadKey(op, c), dbv, clock)
       IN /\ tcache' = r.tc
          /\ last' = Ret("timed:" \o op, c,
                         [payload |-> r.val.data, readAt |-> r.val.readAt, at |-> clock,
                          cached |-> r.cached], TRUE)
    /\ UNCHANGED <<carts, cartItems, clock, exceptTimed>>

\* CartViewSet.list at the current time: the cached response, or the cart
\* serialized from its three properties, each read through its own key, and stored
TimedListCart(u) ==
    /\ LET found == TimedGet(tcache[CartKey(u)], clock)
       IN IF found # {}
          THEN LET v == CHOOSE x \in found : TRUE
               IN /\ last' = Ret("timed:cart_list", u,
                                 [payload |-> v.data, readAt |-> v.readAt, at |-> clock,
                                  cached |-> TRUE], TRUE)
                  /\ UNCHANGED <<tcache, carts>>
          ELSE LET a == TimedRead(tcache, CartItemsCountKey(u), DbItemsCount(cartItems, u),
                                  clock)
                   b == TimedRead(a.tc, CartTotalQuantityKey(u),
                                  DbTotalQuantity(cartItems, u), clock)
                   d == TimedRead(b.tc, CartSubtotalKey(u), DbSubtotal(cartItems, u), clock)
                   v == [data |-> CartResponse(a.val.data, b.val.data, d.val.data),
                         readAt |-> Earliest({a.val.readAt, b.val.readAt, d.val.readAt})]
               IN /\ carts' = carts \cup {u}
                  /\ tcache' = [d.tc EXCEPT ![CartKey(u)] = TimedSet(v, CartTimeout, clock)]
                  /\ last' = Ret("timed:cart_list", u,
                                 [payload |-> v.data, readAt |-> v.readAt, at |-> clock,
                                  cached |-> FALSE], TRUE)
    /\ UNCHANGED <<cartItems, clock, exceptTimed>>

\* CartViewSet.add_item at the current time: 400 for a quantity above the stock,
\* else cart.add_item, which deletes the three aggregate keys, and the delete of
\* cart_{user.id}
TimedAddItem(u, p, q) ==
    /\ prod[p].exists
    /\ cartItems[u][p] + q <= MaxQty
    /\ IF stock[p] < q
       THEN /\ last' = Ret("timed:add_item", u, 400, FALSE)
            /\ UNCHANGED <<carts, cartItems, tcache>>
       ELSE /\ carts' = carts \cup {u}
            /\ cartItems' = [cartItems EXCEPT ![u][p] = @ + q]
            /\ tcache' = [k \in DOMAIN tcache |->
                             IF k \in CartAggregateKeys(u) \cup {CartKey(u)} THEN {}
                             ELSE tcache[k]]
            /\ last' = Ret("timed:add_item", u, 201, TRUE)
    /\ UNCHANGED <<clock, exceptTimed>>

NextTimed ==
    \/ Tick
    \/ \E u \in Buyers, p \in Products, q \in 1..MaxQty : TimedAddItem(u, p, q)
    \/ \E u \in Buyers, op \in {"items_count", "total_quantity", "subtotal"} :
          TimedProperty(op, u)
    \/ \E u \in Buyers : TimedListCart(u)

SpecTimed == Init /\ [][NextTimed]_vars

\* C29: what a cart read serves from the cache was read from the Store at most 15
\* minutes before, also when the payload was built from cached aggregates.
C29_ServedWithinOneTtl ==
    (last.op \in {"timed:cart_list", "timed:items_count", "timed:total_quantity",
                  "timed:subtotal"} /\ last.val.cached) =>
        last.val.at - last.val.readAt <= CartTimeout

\* ------------------------------------------- the landing page configuration
\* The site titles a configuration is saved with; get_config's default is the first.
Titles == {1, 2}

\* LandingPageConfiguration.invalidate_cache: landing_page_content (and
\* landing_page_configuration, which nothing fills)
ConfigInvalidateCache(ch) == CacheDeleteMany(ch, {LandingPageContentKey})

\* LandingPageConfiguration.save of an instance without pk, up to the INSERT: when
\* a row exists, its fields are overwritten, it is saved and save returns
SaveNew(r, title, op) ==
    IF configs # <<>>
    THEN /\ configs' = [configs EXCEPT ![1] = title]
         /\ cache' = ConfigInvalidateCache(cache)
         /\ saving' = [saving EXCEPT ![r] = [pc |-> "idle", title |-> 0]]
         /\ last' = Ret(op, r, "updated", TRUE)
    ELSE /\ saving' = [saving EXCEPT ![r] = [pc |-> "insert", title |-> title]]
         /\ last' = Ret(op, r, "no row", TRUE)
         /\ UNCHANGED <<configs, cache>>

\* LandingPageConfiguration(...).save(): the exists() check
ConfigSaveCheck(r, title) ==
    /\ saving[r].pc = "idle"
    /\ SaveNew(r, title, "config_save")
    /\ UNCHANGED exceptConfig

\* super().save() after the check found no row: the INSERT, then invalidate_cache
ConfigInsert(r) ==
    /\ saving[r].pc = "insert"
    /\ configs' = Append(configs, saving[r].title)
    /\ cache' = ConfigInvalidateCache(cache)
    /\ saving' = [saving EXCEPT ![r] = [pc |-> "idle", title |-> 0]]
    /\ last' = Ret("config_insert", r, Len(configs) + 1, TRUE)
    /\ UNCHANGED exceptConfig

\* get_config, the get of get_or_create: the only row, MultipleObjectsReturned
\* for several, or on to the create for none
GetConfigGet(r) ==
    /\ saving[r].pc = "idle"
    /\ IF Len(configs) = 1
       THEN /\ last' = Ret("get_config", r, configs[1], TRUE)
            /\ UNCHANGED saving
       ELSE IF Len(configs) > 1
       THEN /\ last' = Ret("get_config", r, "MultipleObjectsReturned", FALSE)
            /\ UNCHANGED saving
       ELSE /\ saving' = [saving EXCEPT ![r] = [pc |-> "creating", title |-> 1]]
            /\ last' = Ret("get_config", r, "DoesNotExist", FALSE)
    /\ UNCHANGED <<configs, cache, exceptConfig>>

\* get_config, the create of get_or_create: save() of the instance with the defaults
GetConfigCreate(r) ==
    /\ saving[r].pc = "creating"
    /\ SaveNew(r, saving[r].title, "get_config_create")
    /\ UNCHANGED exceptConfig

NextConfig ==
    \/ \E r \in Requests, title \in Titles : ConfigSaveCheck(r, title)
    \/ \E r \in Requests : ConfigInsert(r)
    \/ \E r \in Requests : GetConfigGet(r)
    \/ \E r \in Requests : GetConfigCreate(r)
    \/ GetLandingPageContent

SpecConfig == Init /\ [][NextConfig]_vars

\* C30: the Store holds at most one LandingPageConfiguration row.
C30_OneConfiguration == Len(configs) <= 1

====
